---- MODULE Spec2Model ----
(***************************************************************************)
(* Model of the ReefCams bar-metadata engine                               *)
(* (src/engine_src/reef_bar_metadata.py).                                  *)
(*                                                                         *)
(* Encoding.  A character is its index in the string                       *)
(* "0123456789ABCDEFGHIJKLMNOPQRSTUVWXYZ:-" (synth_chars): 0..9 are the    *)
(* digits, 10..35 the letters A..Z, 36 is ":" and 37 is "-".  A string is  *)
(* a sequence of characters.  A score is the normalised cross-correlation  *)
(* in hundredths (an integer in -100..100, before the hole adjustment).    *)
(* A glyph is what the matcher can observe of it: its best correlation     *)
(* with the templates of every character, and its hole count.  A token is  *)
(* a sequence of glyphs (one per segment).                                 *)
(***************************************************************************)
EXTENDS Integers, Sequences, FiniteSets, TLC

VARIABLES
    pc,          \* position inside extract_metadata
    clip,        \* the clip being read: [tokens], the tokens of its bar
    bank,        \* the TemplateBank handed to extract_metadata
    fused_temp,  \* fused_temp: [found, f, c, idx]
    site,        \* located site text
    tf,          \* find_temp(.., "F") result: [val, cands, idx]
    tc,          \* find_temp(.., "C") result
    date,        \* located date text
    time,        \* located time text
    idx,         \* index of the last located token (0-based, as in the code)
    hints,       \* [mmdd, year, hms]: the hints extract_metadata derived
    searched,    \* the token searches started so far, in order
    result,      \* the returned BarMetadata, or the raised error
    dpc,         \* decoder harness: position
    din,         \* decoder harness: [kind, token, mmdd, year, hms]
    dout,        \* decoder harness: value returned by the decoder
    cap,         \* sample_frames_with_times: the generator's locals and position
    detector,    \* MegaDetector.__init__: providers, session attempts, outcome
    run,         \* process_clip: arguments, position and locals of the run
    db,          \* the SQLite database: clips, frames and detections rows
    events       \* the JSON events emitted on stdout, in order

vars == <<pc, clip, bank, fused_temp, site, tf, tc, date, time, idx, hints,
          searched, result, dpc, din, dout, cap, detector, run, db, events>>

pipeVars == <<pc, clip, bank, fused_temp, site, tf, tc, date, time, idx, hints,
              searched, result>>

decVars == <<dpc, din, dout>>

procVars == <<cap, detector, run, db, events>>

\* The engine's state while no clip is being processed
NoCapture == [pc |-> "idle"]

NoDetector == [pc |-> "idle"]

NoRun == [pc |-> "idle", n |-> 0]

NoDatabase == [clips |-> <<>>, frames |-> {}, detections |-> {}]

\* "x = v; body": v is evaluated once and bound
Let(v, Body(_)) == CHOOSE out \in {Body(x) : x \in {v}} : TRUE

-----------------------------------------------------------------------------
(* Characters and strings *)

Chars == 0..37

Digits == 0..9

Uppers == 10..35

CH_F == 15

CH_C == 12

CH_COLON == 36

CH_DASH == 37

IsDigit(ch) == ch \in Digits

IsUpper(ch) == ch \in Uppers

Min(a, b) == IF a < b THEN a ELSE b

Max(a, b) == IF a > b THEN a ELSE b

Abs(a) == IF a < 0 THEN -a ELSE a

AllDigits(s) == \A i \in 1..Len(s) : IsDigit(s[i])

\* int("".join(digits)) for a sequence of digit characters
RECURSIVE StrToInt(_)
StrToInt(s) ==
    IF Len(s) = 0 THEN 0
    ELSE 10 * StrToInt(SubSeq(s, 1, Len(s) - 1)) + s[Len(s)]

\* str(n) for n >= 0: the decimal digits, no padding
RECURSIVE NatToStr(_)
NatToStr(n) ==
    IF n < 10 THEN <<n>> ELSE NatToStr(n \div 10) \o <<n % 10>>

\* f"{n}" for an int: a leading "-" for a negative value
IntToStr(n) == IF n < 0 THEN <<CH_DASH>> \o NatToStr(-n) ELSE NatToStr(n)

\* f"{n:0Wd}" for n >= 0: zero padded to at least width characters
ZeroPad(n, width) ==
    Let(NatToStr(n), LAMBDA s :
        IF Len(s) >= width THEN s
        ELSE [i \in 1..(width - Len(s)) |-> 0] \o s)

\* re.fullmatch(r"[A-Z][0-9]{2}", text)
MatchSite(text) ==
    /\ Len(text) = 3
    /\ IsUpper(text[1]) /\ IsDigit(text[2]) /\ IsDigit(text[3])

\* re.fullmatch(r"\d{1,3}" + suffix, text)
MatchTemp(text, suffix) ==
    /\ Len(text) \in 2..4
    /\ text[Len(text)] = suffix
    /\ AllDigits(SubSeq(text, 1, Len(text) - 1))

\* re.fullmatch(r"\d{2}-\d{2}-\d{4}", text)
MatchDate(text) ==
    /\ Len(text) = 10
    /\ text[3] = CH_DASH /\ text[6] = CH_DASH
    /\ \A i \in {1, 2, 4, 5, 7, 8, 9, 10} : IsDigit(text[i])

\* re.fullmatch(r"\d{2}:\d{2}:\d{2}", text)
MatchTime(text) ==
    /\ Len(text) = 8
    /\ text[3] = CH_COLON /\ text[6] = CH_COLON
    /\ \A i \in {1, 2, 4, 5, 7, 8} : IsDigit(text[i])

-----------------------------------------------------------------------------
(* TemplateBank and the glyph matcher *)

TopK == 3

HoleAdjust == 3

\* The number of templates a bank holds for a character, in both maps.  A
\* template map is a function from its keys to the number of glyphs stored.
TemplateCount(b, ch) ==
    (IF ch \in DOMAIN b.templates THEN b.templates[ch] ELSE 0)
    + (IF ch \in DOMAIN b.synth_templates THEN b.synth_templates[ch] ELSE 0)

\* hole_pref.get(holes, set())
hole_pref(holes) ==
    CASE holes = 0 -> {1, 2, 3, 4, 5, 7}
      [] holes = 1 -> {0, 6, 9}
      [] holes = 2 -> {8}
      [] OTHER -> {}

\* The hole adjustment of a digit's score
HoleDelta(holes, ch, useHoles) ==
    IF ~useHoles THEN 0
    ELSE IF ch \in hole_pref(holes) THEN HoleAdjust
    ELSE IF hole_pref(holes) # {} THEN -HoleAdjust
    ELSE 0

\* list(bank.templates.keys() | bank.synth_templates.keys()): the keys in the
\* iteration order of the set, which the hash seed decides; two orders are
\* modelled, ascending and descending.
BankKeys(b, order) ==
    SelectSeq(IF order = "asc" THEN [i \in 1..38 |-> i - 1]
              ELSE [i \in 1..38 |-> 38 - i],
              LAMBDA ch : ch \in DOMAIN b.templates \cup DOMAIN b.synth_templates)

\* number of rows sorted before row i by a stable descending sort on Key
Before(rows, Key(_), i) ==
    Cardinality({j \in 1..Len(rows) :
        \/ Key(rows[j]) > Key(rows[i])
        \/ (Key(rows[j]) = Key(rows[i]) /\ j < i)})

\* rows.sort(key=Key, reverse=True)[:m]
SortPrefix(rows, Key(_), m) ==
    [k \in 1..m |-> rows[CHOOSE i \in 1..Len(rows) : Before(rows, Key, i) = k - 1]]
    \o <<>>

\* The (ch, score) pairs rank_char_candidates collects, in the order of allowed
Scored(glyph, b, allowed) ==
    Let(SelectSeq(allowed, LAMBDA ch : TemplateCount(b, ch) > 0), LAMBDA avail :
        [i \in 1..Len(avail) |->
            <<avail[i],
              glyph.sc[avail[i]]
              + HoleDelta(glyph.holes, avail[i], AllDigits(allowed))>>] \o <<>>)

\* rank_char_candidates: the pairs stably sorted by descending score, cut to
\* max(1, top_k)
rank_char_candidates(glyph, b, allowed, top_k) ==
    Let(Scored(glyph, b, allowed), LAMBDA scored :
        SortPrefix(scored, LAMBDA p : p[2], Min(Len(scored), Max(1, top_k))))

DigitList == <<0, 1, 2, 3, 4, 5, 6, 7, 8, 9>>

UpperList == [i \in 1..26 |-> 9 + i]

\* ocr_token with the site token read like a generic one: any character of the
\* bank at every position
AllowedAnyCharacter(kind, i, n, b, order) ==
    CASE kind = "temp_f" -> IF i < n - 1 THEN DigitList ELSE <<CH_F>>
      [] kind = "temp_c" -> IF i < n - 1 THEN DigitList ELSE <<CH_C>>
      [] kind = "date" -> IF i \in {2, 5} THEN <<CH_DASH>> ELSE DigitList
      [] kind = "time" -> IF i \in {2, 5} THEN <<CH_COLON>> ELSE DigitList
      [] OTHER -> BankKeys(b, order)

\* ocr_token's per-position character class (i is 0-based, n the token length)
Allowed(kind, i, n, b, order) ==
    CASE kind = "site" -> IF i = 0 THEN UpperList ELSE DigitList
      [] kind = "temp_f" -> IF i < n - 1 THEN DigitList ELSE <<CH_F>>
      [] kind = "temp_c" -> IF i < n - 1 THEN DigitList ELSE <<CH_C>>
      [] kind = "date" -> IF i \in {2, 5} THEN <<CH_DASH>> ELSE DigitList
      [] kind = "time" -> IF i \in {2, 5} THEN <<CH_COLON>> ELSE DigitList
      [] OTHER -> BankKeys(b, order)

\* ocr_token: [fails, text]; it fails (IndexError) when some position has no
\* ranked candidate, and otherwise joins the best character of every position
ocr_token(token, b, kind, order) ==
    Let([i \in 1..Len(token) |->
            rank_char_candidates(token[i], b,
                Allowed(kind, i - 1, Len(token), b, order), 1)] \o <<>>,
        LAMBDA ranked :
            IF \E i \in 1..Len(ranked) : Len(ranked[i]) = 0
            THEN [fails |-> TRUE, text |-> <<>>]
            ELSE [fails |-> FALSE,
                  text |-> [i \in 1..Len(ranked) |-> ranked[i][1][1]] \o <<>>])

-----------------------------------------------------------------------------
(* Combinatorial decoding *)

None == [ok |-> FALSE, text |-> <<>>, score |-> 0]

Some(text, score) == [ok |-> TRUE, text |-> text, score |-> score]

RECURSIVE SumSeq(_)
SumSeq(s) == IF Len(s) = 0 THEN 0 ELSE s[1] + SumSeq(Tail(s))

RECURSIVE ProdSeq(_)
ProdSeq(s) == IF Len(s) = 0 THEN 1 ELSE s[1] * ProdSeq(Tail(s))

\* The order in which np.array(np.meshgrid(*ranges)).T.reshape(-1, n) varies
\* the positions, fastest first: position 1 (0-based), then position 0, then
\* positions 2, 3, ..., n-1.  Positions are 1-based here.
EnumAxes(n) ==
    IF n = 1 THEN <<1>> ELSE <<2, 1>> \o [i \in 1..(n - 2) |-> i + 2]

\* The candidate index of every position in row q (0-based) of the loop
RECURSIVE ComboAt(_, _, _, _)
ComboAt(lens, axes, j, q) ==
    IF j > Len(axes) THEN <<>>
    ELSE (axes[j] :> ((q % lens[axes[j]]) + 1))
         @@ ComboAt(lens, axes, j + 1, q \div lens[axes[j]])

\* One row of the loop: its digits and its score (the sum of their scores)
ComboRow(digit_candidates, c) ==
    [digits |-> [p \in 1..Len(digit_candidates) |-> digit_candidates[p][c[p]][1]]
                \o <<>>,
     score |-> SumSeq([p \in 1..Len(digit_candidates) |->
                          digit_candidates[p][c[p]][2]])]

\* The rows of the meshgrid loop, in order
Combos(digit_candidates) ==
    Let([p \in 1..Len(digit_candidates) |-> Len(digit_candidates[p])] \o <<>>,
        LAMBDA lens :
            [k \in 1..ProdSeq(lens) |->
                ComboRow(digit_candidates,
                    ComboAt(lens, EnumAxes(Len(lens)), 1, k - 1))] \o <<>>)

\* digit_candidates of the glyphs at the given (0-based) positions of a token
DigitCandidates(token, b, positions, top_k) ==
    [p \in 1..Len(positions) |->
        rank_char_candidates(token[positions[p] + 1], b, DigitList, top_k)]
    \o <<>>

\* candidates.sort(key=score, reverse=True)[0] over the rows whose index is in
\* keep: the highest score, and the earliest such row (the sort is stable)
FirstBest(rows, keep) ==
    Let(CHOOSE s \in {rows[k].score : k \in keep} :
            \A k \in keep : rows[k].score <= s,
        LAMBDA top :
            CHOOSE k \in keep :
                /\ rows[k].score = top
                /\ \A j \in keep : rows[j].score = top => k <= j)

TempInRange(v, suffix) ==
    IF suffix = CH_F THEN 0 <= v /\ v <= 200 ELSE -20 <= v /\ v <= 100

\* decode_temp_token's values: the rows sorted by score, then range filtered,
\* as <<value, score>> pairs
TempValues(rows, suffix) ==
    Let(SelectSeq(SortPrefix(rows, LAMBDA r : r.score, Len(rows)),
                  LAMBDA r : TempInRange(StrToInt(r.digits), suffix)),
        LAMBDA kept :
            [k \in 1..Len(kept) |-> <<StrToInt(kept[k].digits), kept[k].score>>]
            \o <<>>)

\* decode_temp_token: [ok, val, values]; ok is "best_val is not None"
decode_temp_token(token, b, suffix, top_k) ==
    Let(IF Len(token) < 2 THEN <<>>
        ELSE TempValues(
                 Combos(DigitCandidates(token, b,
                            [i \in 1..(Len(token) - 1) |-> i - 1], top_k)),
                 suffix),
        LAMBDA values :
            [ok |-> Len(values) > 0,
             val |-> IF Len(values) > 0 THEN values[1][1] ELSE 0,
             values |-> values])

\* max_day with every February given 29 days
MaxDayNoLeapRule(month, year) ==
    IF month = 2 THEN 29
    ELSE IF month \in {1, 3, 5, 7, 8, 10, 12} THEN 31
    ELSE 30

MaxDay(month, year) ==
    IF month = 2
    THEN IF (year % 4 = 0) /\ (year % 100 # 0 \/ year % 400 = 0) THEN 29 ELSE 28
    ELSE IF month \in {1, 3, 5, 7, 8, 10, 12} THEN 31
    ELSE 30

ValidDate(month, day, year) ==
    /\ 1 <= month /\ month <= 12
    /\ 2000 <= year /\ year <= 2099
    /\ 1 <= day /\ day <= MaxDay(month, year)

\* f"{month:02d}-{day:02d}-{year:04d}"
DateText(month, day, year) ==
    ZeroPad(month, 2) \o <<CH_DASH>> \o ZeroPad(day, 2) \o <<CH_DASH>>
    \o ZeroPad(year, 4)

NoHint == <<>>

RowMonth(r) == StrToInt(SubSeq(r.digits, 1, 2))

RowDay(r) == StrToInt(SubSeq(r.digits, 3, 4))

RowYear(r) == StrToInt(SubSeq(r.digits, 5, 8))

\* filter_candidates: each hint filter is kept only if it leaves a candidate
FilterByHint(rows, cands, hint, Field(_)) ==
    Let({k \in cands : Field(rows[k]) = hint}, LAMBDA filtered :
        IF hint # NoHint /\ filtered # {} THEN filtered ELSE cands)

\* filter_candidates with the year filter chained on the month/day filter's
\* output even when that output is empty
filter_candidates_chained(rows, cands, month_day_hint, year_hint) ==
    Let({k \in cands : month_day_hint # NoHint
                        /\ <<RowMonth(rows[k]), RowDay(rows[k])>> = month_day_hint},
        LAMBDA filtered :
            IF filtered # {}
            THEN FilterByHint(rows, filtered, year_hint, LAMBDA r : <<RowYear(r)>>)
            ELSE cands)

filter_candidates(rows, cands, month_day_hint, year_hint) ==
    FilterByHint(rows,
        FilterByHint(rows, cands, month_day_hint,
                     LAMBDA r : <<RowMonth(r), RowDay(r)>>),
        year_hint, LAMBDA r : <<RowYear(r)>>)

\* The first loop's "if score > best_score" with best_score = -1.0 at start
BestFound(rows, cands) == \E k \in cands : rows[k].score > -100

DateOfRow(r) == Some(DateText(RowMonth(r), RowDay(r), RowYear(r)), r.score)

\* decode_date_token
decode_date_token(token, b, top_k, month_day_hint, year_hint) ==
    IF Len(token) # 10 THEN None
    ELSE
    Let(Combos(DigitCandidates(token, b, <<0, 1, 3, 4, 6, 7, 8, 9>>, top_k)),
        LAMBDA rows :
        Let({k \in 1..Len(rows) :
                 ValidDate(RowMonth(rows[k]), RowDay(rows[k]), RowYear(rows[k]))},
            LAMBDA all_candidates :
                IF ~BestFound(rows, all_candidates) THEN None
                ELSE DateOfRow(rows[FirstBest(rows,
                         filter_candidates(rows, all_candidates,
                                           month_day_hint, year_hint))])))

\* The range checks with the hour checked digit by digit: tens 0..2, units 0..9
ValidTimeHourDigits(hour, minute, second) ==
    /\ 0 <= hour /\ hour <= 29
    /\ 0 <= minute /\ minute <= 59
    /\ 0 <= second /\ second <= 59

ValidTime(hour, minute, second) ==
    /\ 0 <= hour /\ hour <= 23
    /\ 0 <= minute /\ minute <= 59
    /\ 0 <= second /\ second <= 59

\* f"{hour:02d}:{minute:02d}:{second:02d}"
TimeText(hour, minute, second) ==
    ZeroPad(hour, 2) \o <<CH_COLON>> \o ZeroPad(minute, 2) \o <<CH_COLON>>
    \o ZeroPad(second, 2)

RowHour(r) == StrToInt(SubSeq(r.digits, 1, 2))

RowMinute(r) == StrToInt(SubSeq(r.digits, 3, 4))

RowSecond(r) == StrToInt(SubSeq(r.digits, 5, 6))

TimeOfRow(r) == Some(TimeText(RowHour(r), RowMinute(r), RowSecond(r)), r.score)

\* decode_time_token
decode_time_token(token, b, top_k, time_hint) ==
    IF Len(token) # 8 THEN None
    ELSE
    Let(Combos(DigitCandidates(token, b, <<0, 1, 3, 4, 6, 7>>, top_k)),
        LAMBDA rows :
        Let({k \in 1..Len(rows) :
                 ValidTime(RowHour(rows[k]), RowMinute(rows[k]), RowSecond(rows[k]))},
            LAMBDA all_candidates :
                IF ~BestFound(rows, all_candidates) THEN None
                ELSE TimeOfRow(rows[FirstBest(rows,
                         FilterByHint(rows, all_candidates, time_hint,
                             LAMBDA r : <<RowHour(r), RowMinute(r), RowSecond(r)>>))])))

-----------------------------------------------------------------------------
(* Inputs: glyphs, tokens and banks *)

\* A glyph whose best correlation is given for the characters in DOMAIN over
\* and is base for every other character.
Glyph(over, base, holes) ==
    [sc |-> [ch \in Chars |-> IF ch \in DOMAIN over THEN over[ch] ELSE base],
     holes |-> holes]

\* count_glyph_holes of a cleanly rendered character
HolesOf(ch) ==
    IF ch \in {0, 6, 9} THEN 1
    ELSE IF ch = 8 THEN 2
    ELSE IF ch \in {10, 13, 24, 25, 26, 27} THEN 1   \* A D O P Q R
    ELSE IF ch = 11 THEN 2                            \* B
    ELSE 0

\* A sharp glyph of one character
Clean(ch) == Glyph(ch :> 95, 10, HolesOf(ch))

\* A glyph that resembles two characters
Amb(a, sa, b, sb) == Glyph(a :> sa @@ b :> sb, 10, HolesOf(a))

\* A glyph that resembles three characters
Amb3(a, sa, b, sb, c, sc) == Glyph(a :> sa @@ b :> sb @@ c :> sc, 10, HolesOf(a))

\* A washed-out glyph: anti-correlated with every template
Faint(ch) == Glyph(ch :> (-35), -40, 3)

\* build_template_bank without a calibration clip: synthetic templates for all
\* 38 characters, 6 fonts x 3 thicknesses each
SynthBank == [templates |-> <<>>, synth_templates |-> [ch \in Chars |-> 18]]

\* build_templates_from_calibration on "F32 82F 27C 01-09-2026 16:01:29"
CalibratedBank ==
    [templates |-> (0 :> 4 @@ 1 :> 3 @@ 2 :> 6 @@ 3 :> 1 @@ 6 :> 2 @@ 7 :> 1
                    @@ 8 :> 1 @@ 9 :> 2 @@ CH_F :> 2 @@ CH_C :> 1
                    @@ CH_COLON :> 2 @@ CH_DASH :> 2),
     synth_templates |-> [ch \in Chars |-> 18]]

Banks == {SynthBank, CalibratedBank}

\* A 10-segment token from the glyphs of its 8 digit positions
DateToken(g) ==
    <<g[1], g[2], Clean(CH_DASH), g[3], g[4], Clean(CH_DASH),
      g[5], g[6], g[7], g[8]>>

\* An 8-segment token from the glyphs of its 6 digit positions
TimeToken(g) ==
    <<g[1], g[2], Clean(CH_COLON), g[3], g[4], Clean(CH_COLON), g[5], g[6]>>

-----------------------------------------------------------------------------
(* Decoder harness: one call of a field decoder on one token *)

\* Date tokens: one glyph per digit position, a washed-out token, and tokens
\* of 8 and 9 segments
DateTokens ==
    {DateToken(<<m1, m2, d1, d2, Clean(2), Clean(0), Clean(2), y4>>) :
        m1 \in {Clean(0), Amb(1, 90, 0, 85)},
        m2 \in {Clean(2), Amb(3, 90, 2, 79)},
        d1 \in {Amb(3, 95, 2, 90), Clean(2)},
        d2 \in {Amb3(0, 95, 9, 90, 1, 80), Clean(9)},
        y4 \in {Amb(5, 95, 4, 90), Clean(4), Clean(5)}}
    \cup {DateToken(<<Faint(0), Faint(1), Faint(0), Faint(9),
                      Faint(2), Faint(0), Faint(2), Faint(6)>>),
          TimeToken(<<Clean(1), Clean(6), Clean(0), Clean(1), Clean(2), Clean(9)>>),
          <<Clean(0), Clean(1), Clean(CH_DASH), Clean(0), Clean(9), Clean(CH_DASH),
            Clean(2), Clean(0), Clean(2)>>}

\* Time tokens, a washed-out token, and tokens of 7 and 10 segments
TimeTokens ==
    {TimeToken(<<h1, h2, m1, m2, s1, Clean(9)>>) :
        h1 \in {Clean(1), Amb(2, 90, 1, 85)},
        h2 \in {Clean(6), Amb(9, 90, 3, 91)},
        m1 \in {Clean(0), Amb(7, 90, 5, 85)},
        m2 \in {Clean(1), Amb(1, 90, 7, 90)},
        s1 \in {Clean(2), Amb(6, 95, 5, 90)}}
    \cup {TimeToken(<<Faint(1), Faint(6), Faint(0), Faint(1), Faint(2), Faint(9)>>),
          <<Clean(1), Clean(6), Clean(CH_COLON), Clean(0), Clean(1),
            Clean(CH_COLON), Clean(2)>>,
          DateToken(<<Clean(0), Clean(1), Clean(0), Clean(9),
                      Clean(2), Clean(0), Clean(2), Clean(6)>>)}

\* Temperature tokens of one to three digits and a suffix glyph
TempTokens ==
    {d \o <<Clean(s)>> :
        d \in {<<a>> : a \in {Clean(8), Amb(2, 90, 1, 85)}}
              \cup {<<a, b>> : a \in {Clean(8), Amb(2, 90, 1, 85)},
                               b \in {Clean(2), Amb(5, 90, 0, 91)}}
              \cup {<<a, b, Clean(0)>> : a \in {Clean(8), Amb(2, 90, 1, 85), Amb(1, 90, 0, 85)},
                                         b \in {Clean(2), Amb(5, 90, 0, 91)}},
        s \in {CH_F, CH_C}}

\* The hints a caller passes to decode_date_token
DateHints ==
    {<<NoHint, NoHint>>, <<<<2, 29>>, <<2024>>>>, <<<<2, 30>>, NoHint>>,
     <<<<2, 29>>, <<2025>>>>, <<<<2, 30>>, <<2024>>>>, <<NoHint, <<2031>>>>}

\* The hints a caller passes to decode_time_token
TimeHints == {NoHint, <<16, 1, 29>>, <<29, 1, 29>>}

DecodeInputs ==
    {[kind |-> "date", token |-> t, mmdd |-> h[1], year |-> h[2], hms |-> NoHint] :
        t \in DateTokens, h \in DateHints}
    \cup {[kind |-> "time", token |-> t, mmdd |-> NoHint, year |-> NoHint, hms |-> h] :
        t \in TimeTokens, h \in TimeHints}
    \cup {[kind |-> k, token |-> t, mmdd |-> NoHint, year |-> NoHint, hms |-> NoHint] :
        t \in TempTokens, k \in {"temp_f", "temp_c"}}

NoFused == [found |-> FALSE, f |-> 0, c |-> 0, idx |-> 0]

NoTemp == [val |-> 0, cands |-> <<>>, idx |-> 0]

NoField == [text |-> <<>>, idx |-> 0]

NoHints == [mmdd |-> NoHint, year |-> NoHint, hms |-> NoHint]

NoRecord == <<>>

Running == [st |-> "running", error |-> "", record |-> NoRecord]

\* The decoder harness starts with one decoder call pending
DecInit ==
    /\ dpc = "call"
    /\ din \in DecodeInputs
    /\ dout = None
    /\ pc = "idle" /\ clip = [tokens |-> <<>>] /\ bank = SynthBank
    /\ fused_temp = NoFused /\ site = NoField /\ tf = NoTemp /\ tc = NoTemp
    /\ date = NoField /\ time = NoField /\ idx = 0 /\ hints = NoHints
    /\ searched = <<>> /\ result = Running
    /\ cap = NoCapture /\ detector = NoDetector /\ run = NoRun
    /\ db = NoDatabase /\ events = <<>>

\* val, candidates = decode_temp_token(bw, tokens[i], bank, suffix=suffix)
DecodeTemp ==
    /\ dpc = "call"
    /\ din.kind \in {"temp_f", "temp_c"}
    /\ dout' = Let(decode_temp_token(din.token, SynthBank,
                       IF din.kind = "temp_f" THEN CH_F ELSE CH_C, TopK),
                   LAMBDA r :
                       IF r.ok THEN [ok |-> TRUE, text |-> NatToStr(r.val),
                                     score |-> r.values[1][2]]
                       ELSE None)
    /\ dpc' = "returned"
    /\ UNCHANGED <<din, pipeVars, procVars>>

\* decoded = decode_date_token(bw, tokens[i], bank, month_day_hint, year_hint)
DecodeDate ==
    /\ dpc = "call"
    /\ din.kind = "date"
    /\ dout' = decode_date_token(din.token, SynthBank, TopK, din.mmdd, din.year)
    /\ dpc' = "returned"
    /\ UNCHANGED <<din, pipeVars, procVars>>

\* decoded = decode_time_token(bw, tokens[i], bank, time_hint=time_hint)
DecodeTime ==
    /\ dpc = "call"
    /\ din.kind = "time"
    /\ dout' = decode_time_token(din.token, SynthBank, TopK, din.hms)
    /\ dpc' = "returned"
    /\ UNCHANGED <<din, pipeVars, procVars>>

DecNext == DecodeTemp \/ DecodeDate \/ DecodeTime

SpecDecode == DecInit /\ [][DecNext]_vars

-----------------------------------------------------------------------------
(* extract_metadata: the tokens of a bar *)

\* The tokens a bar can hold, by the text drawn in them
TokenNames ==
    {"F32", "95F", "37C", "29C", "76F24C", "250F99C", "X12F34C",
     "01-09-2026", "16:01:29"}

\* What the camera draws the token for
SlotOf(name) ==
    CASE name = "F32" -> "site"
      [] name = "95F" -> "fahrenheit"
      [] name \in {"37C", "29C"} -> "celsius"
      [] name \in {"76F24C", "250F99C"} -> "both"
      [] name = "X12F34C" -> "label"
      [] name = "01-09-2026" -> "date"
      [] OTHER -> "time"

Tok(name) ==
    CASE name = "F32" -> <<Clean(CH_F), Clean(3), Clean(2)>>
         \* a 5 that reads as much like a 7
      [] name = "95F" -> <<Clean(9), Amb(5, 90, 7, 90), Clean(CH_F)>>
         \* a 3 that reads as much like a 9
      [] name = "37C" -> <<Amb(3, 90, 9, 90), Clean(7), Clean(CH_C)>>
      [] name = "29C" -> <<Clean(2), Clean(9), Clean(CH_C)>>
      [] name = "76F24C" ->
            <<Clean(7), Clean(6), Clean(CH_F), Clean(2), Clean(4), Clean(CH_C)>>
      [] name = "250F99C" ->
            <<Clean(2), Clean(5), Clean(0), Clean(CH_F), Clean(9), Clean(9),
              Clean(CH_C)>>
      [] name = "X12F34C" ->
            <<Clean(33), Clean(1), Clean(2), Clean(CH_F), Clean(3), Clean(4),
              Clean(CH_C)>>
      [] name = "01-09-2026" ->
            DateToken(<<Clean(0), Amb(1, 90, 7, 88), Clean(0), Clean(9),
                        Clean(2), Clean(0), Clean(2), Amb(6, 90, 5, 90)>>)
      [] OTHER ->
            TimeToken(<<Clean(1), Clean(6), Clean(0), Amb(1, 90, 7, 90),
                        Clean(2), Clean(9)>>)

\* The iteration orders of the bank's key set that are modelled
KeyOrders == {"asc", "desc"}

\* parse_mmdd_from_filename / get_creation_time_utc: what a clip named
\* 0109xxxx.MOV created 2025-01-09T16:07:29Z supplies
SomeHints == [mmdd |-> <<1, 9>>, year |-> <<2025>>, hms |-> <<16, 7, 29>>]

HintSets == {NoHints, SomeHints}

\* Each token is read and decoded once per bank; the searches look the result up
SiteRead == [n \in TokenNames, b \in Banks |-> ocr_token(Tok(n), b, "site", "asc")]

GenericRead ==
    [n \in TokenNames, b \in Banks, o \in KeyOrders |->
        ocr_token(Tok(n), b, "generic", o)]

TempKind(suffix) == IF suffix = CH_F THEN "temp_f" ELSE "temp_c"

TempRead ==
    [n \in TokenNames, b \in Banks, suffix \in {CH_F, CH_C} |->
        ocr_token(Tok(n), b, TempKind(suffix), "asc")]

\* decode_temp_token is only called on a token whose read matched the pattern
TempDecoded ==
    [n \in TokenNames, b \in Banks, suffix \in {CH_F, CH_C} |->
        IF ~TempRead[n, b, suffix].fails /\ MatchTemp(TempRead[n, b, suffix].text, suffix)
        THEN decode_temp_token(Tok(n), b, suffix, TopK)
        ELSE [ok |-> FALSE, val |-> 0, values |-> <<>>]]

DateDecoded ==
    [n \in TokenNames, b \in Banks, h \in HintSets |->
        decode_date_token(Tok(n), b, TopK, h.mmdd, h.year)]

TimeDecoded ==
    [n \in TokenNames, b \in Banks, h \in HintSets |->
        decode_time_token(Tok(n), b, TopK, h.hms)]

\* (\d{1,3})F(\d{1,3})C matches text at position s with n1 and n2 digits
FusedMatchAt(text, s, n1, n2) ==
    /\ s + n1 + n2 + 1 <= Len(text)
    /\ AllDigits(SubSeq(text, s, s + n1 - 1))
    /\ text[s + n1] = CH_F
    /\ AllDigits(SubSeq(text, s + n1 + 1, s + n1 + n2))
    /\ text[s + n1 + n2 + 1] = CH_C

\* The groups of a match <<s, n1, n2>>
FusedGroups(text, m) ==
    [found |-> TRUE,
     f |-> StrToInt(SubSeq(text, m[1], m[1] + m[2] - 1)),
     c |-> StrToInt(SubSeq(text, m[1] + m[2] + 1, m[1] + m[2] + m[3]))]

\* re.search(r"(\d{1,3})F(\d{1,3})C", text): the leftmost match, its first
\* group as long as it can be
FusedSearch(text) ==
    Let({m \in (1..Len(text)) \X (1..3) \X (1..3) :
            FusedMatchAt(text, m[1], m[2], m[3])},
        LAMBDA found :
            IF found = {} THEN [found |-> FALSE, f |-> 0, c |-> 0]
            ELSE FusedGroups(text,
                     CHOOSE m \in found : \A o \in found : m[1] <= o[1]))

NTokens == Len(clip.tokens)

TokenAt(i) == clip.tokens[i + 1]

NSegs(i) == Len(Tok(TokenAt(i)))

\* for i in range(start_idx, len(tokens)): the first i at which the loop
\* stops, or -1 when it runs to the end
FirstStop(start_idx, Stops(_)) ==
    Let({i \in start_idx..(NTokens - 1) : Stops(i)}, LAMBDA stops :
        IF stops = {} THEN -1 ELSE CHOOSE i \in stops : \A j \in stops : i <= j)

\* The fused-temperature scan: [st, fused]
ScanFused(order) ==
    Let(FirstStop(0, LAMBDA i :
            /\ NSegs(i) >= 4
            /\ \/ GenericRead[TokenAt(i), bank, order].fails
               \/ FusedSearch(GenericRead[TokenAt(i), bank, order].text).found),
        LAMBDA i0 :
            IF i0 = -1 THEN [st |-> "ok", fused |-> NoFused]
            ELSE Let(GenericRead[TokenAt(i0), bank, order], LAMBDA rd :
                IF rd.fails THEN [st |-> "index", fused |-> NoFused]
                ELSE [st |-> "ok",
                      fused |-> [idx |-> i0] @@ FusedSearch(rd.text)]))

\* find_site(start_idx): [st, text, idx]
find_site(start_idx) ==
    Let(FirstStop(start_idx, LAMBDA i :
            \/ SiteRead[TokenAt(i), bank].fails
            \/ MatchSite(SiteRead[TokenAt(i), bank].text)),
        LAMBDA i0 :
            IF i0 = -1 THEN [st |-> "missing", text |-> <<>>, idx |-> 0]
            ELSE Let(SiteRead[TokenAt(i0), bank], LAMBDA rd :
                IF rd.fails THEN [st |-> "index", text |-> <<>>, idx |-> 0]
                ELSE [st |-> "found", text |-> rd.text, idx |-> i0]))

\* The loop of find_temp stops at token i: its read raises, or it matches the
\* pattern and decodes to a value
TempStops(i, suffix) ==
    /\ NSegs(i) >= 2
    /\ \/ TempRead[TokenAt(i), bank, suffix].fails
       \/ TempDecoded[TokenAt(i), bank, suffix].ok

\* find_temp(start_idx, suffix): [st, val, cands, idx]
find_temp(start_idx, suffix) ==
    IF fused_temp.found
    THEN [st |-> "found",
          val |-> IF suffix = CH_F THEN fused_temp.f ELSE fused_temp.c,
          cands |-> <<>>, idx |-> fused_temp.idx]
    ELSE
    Let(FirstStop(start_idx, LAMBDA i : TempStops(i, suffix)), LAMBDA i0 :
        IF i0 = -1 THEN [st |-> "missing", val |-> 0, cands |-> <<>>, idx |-> 0]
        ELSE IF TempRead[TokenAt(i0), bank, suffix].fails
        THEN [st |-> "index", val |-> 0, cands |-> <<>>, idx |-> 0]
        ELSE Let(TempDecoded[TokenAt(i0), bank, suffix], LAMBDA dec :
                [st |-> "found", val |-> dec.val, cands |-> dec.values,
                 idx |-> i0]))

\* What a search of find_date / find_time returns from the decoded token
Located(i0, decoded) ==
    IF i0 = -1 THEN [st |-> "missing", text |-> <<>>, idx |-> 0]
    ELSE [st |-> "found", text |-> decoded[TokenAt(i0), bank, hints].text,
          idx |-> i0]

\* find_date scanning every token instead of those from start_idx on
find_date_from_zero(start_idx) ==
    Located(FirstStop(0, LAMBDA i :
                /\ DateDecoded[TokenAt(i), bank, hints].ok
                /\ MatchDate(DateDecoded[TokenAt(i), bank, hints].text)),
            DateDecoded)

\* find_date(start_idx): [st, text, idx]
find_date(start_idx) ==
    Located(FirstStop(start_idx, LAMBDA i :
                /\ DateDecoded[TokenAt(i), bank, hints].ok
                /\ MatchDate(DateDecoded[TokenAt(i), bank, hints].text)),
            DateDecoded)

\* find_time(start_idx): [st, text, idx]
find_time(start_idx) ==
    Located(FirstStop(start_idx, LAMBDA i :
                /\ TimeDecoded[TokenAt(i), bank, hints].ok
                /\ MatchTime(TimeDecoded[TokenAt(i), bank, hints].text)),
            TimeDecoded)

-----------------------------------------------------------------------------
(* extract_metadata: the temperature consistency repair *)

(***************************************************************************)
(* abs(c_val - (f_val - 32) * 5.0 / 9.0) is computed in IEEE-754 double    *)
(* arithmetic.  With N = 5 * (f_val - 32) and q = |9 * c_val - N| the      *)
(* exact discrepancy is q / 9; the computed one differs from it by the     *)
(* rounding of N / 9.0 to 53 bits and of the subtraction.  A computed      *)
(* discrepancy is <<q, dev>>: the value q / 9 + dev / (9 * 2^53).          *)
(***************************************************************************)

Sign(x) == IF x < 0 THEN -1 ELSE 1

\* The exponent e of the double nearest x / 9: 2^e <= x / 9 < 2^(e + 1)
FloorLog2Ninth(x) ==
    CHOOSE j \in -4..10 :
        IF j >= 0 THEN 9 * 2^j <= x /\ x < 9 * 2^(j + 1)
        ELSE 9 <= x * 2^(-j) /\ x * 2^(-j - 1) < 9

\* 2^s mod 9
TwoPowMod9(s) == <<1, 2, 4, 8, 7, 5>>[(s % 6) + 1]

\* Rounding a * 2^s / 9 to the nearest integer M: 9 * M - a * 2^s
QuotientRounding(a, s) ==
    Let(((a % 9) * TwoPowMod9(s)) % 9, LAMBDA r : IF r <= 4 THEN -r ELSE 9 - r)

\* The inverse of 9 modulo m, a power of two
Inv9(m) == CHOOSE x \in 0..(m - 1) : (9 * x) % m = 1

\* Rounding the integer W, with 9 * W = d modulo 2^(k + 1), to a multiple of
\* 2^k, ties to even: the amount added to W
RoundAdj(d, k) ==
    IF k = 0 THEN 0
    ELSE Let((d * Inv9(2^(k + 1))) % 2^(k + 1), LAMBDA low2 :
         Let(low2 % 2^k, LAMBDA low :
             IF low < 2^(k - 1) \/ (low = 2^(k - 1) /\ low2 < 2^k)
             THEN -low ELSE 2^k - low))

\* The computed discrepancy when N / 9.0 is not an integer; Q = 9 * c_val - N
FloatErrInexact(N, Q) ==
    Let(FloorLog2Ninth(Abs(N)), LAMBDA e :
    Let(-Sign(Q) * Sign(N) * QuotientRounding(Abs(N), 52 - e), LAMBDA d :
        <<Abs(Q),
          (d + 9 * RoundAdj(d, Max(0, FloorLog2Ninth(Abs(Q)) - e))) * 2^(e + 1)>>))

\* err = abs(c_val - f_to_c(f_val))
FloatErr(f_val, c_val) ==
    Let(5 * (f_val - 32), LAMBDA N :
        IF N % 9 = 0 THEN <<Abs(9 * c_val - N), 0>>
        ELSE FloatErrInexact(N, 9 * c_val - N))

\* err < best_err
ErrLess(err, best_err) ==
    err[1] < best_err[1] \/ (err[1] = best_err[1] /\ err[2] < best_err[2])

\* abs(err - best_err) < 1e-6: two computed discrepancies this close have the
\* same q, and two with the same q are this close
ErrClose(err, best_err) == err[1] = best_err[1]

\* base_err >= 2.0
RepairNeededInclusive(f_val, c_val) ==
    ~ErrLess(FloatErr(f_val, c_val), <<18, 0>>)

\* base_err > 2.0
RepairNeeded(f_val, c_val) ==
    ErrLess(<<18, 0>>, FloatErr(f_val, c_val))

\* One iteration of the repair loop on the pair (f, c) of <<value, score>>
RepairStep(best, f, c) ==
    Let(FloatErr(f[1], c[1]), LAMBDA err :
        IF \/ ~best.set
           \/ ErrLess(err, best.err)
           \/ (ErrClose(err, best.err) /\ f[2] + c[2] > best.score)
        THEN [set |-> TRUE, f |-> f[1], c |-> c[1], err |-> err,
              score |-> f[2] + c[2]]
        ELSE best)

\* for c_val, c_score in temp_c_candidates: the inner loop, from candidate j
RECURSIVE RepairInner(_, _, _, _)
RepairInner(f, cc, j, best) ==
    IF j > Len(cc) THEN best
    ELSE Let(RepairStep(best, f, cc[j]), LAMBDA b : RepairInner(f, cc, j + 1, b))

\* for f_val, f_score in temp_f_candidates: the outer loop, from candidate i
RECURSIVE RepairLoop(_, _, _, _)
RepairLoop(fc, cc, i, best) ==
    IF i > Len(fc) THEN best
    ELSE Let(RepairInner(fc[i], cc, 1, best), LAMBDA b :
             RepairLoop(fc, cc, i + 1, b))

\* The temperatures after the consistency repair: <<temp_f_val, temp_c_val>>
RefinedTemps(f, c) ==
    IF Len(f.cands) > 0 /\ Len(c.cands) > 0 /\ RepairNeeded(f.val, c.val)
    THEN Let(RepairLoop(f.cands, c.cands, 1,
                 [set |-> FALSE, f |-> 0, c |-> 0, err |-> <<0, 0>>,
                  score |-> -100]),
             LAMBDA best : <<best.f, best.c>>)
    ELSE <<f.val, c.val>>

\* The final re-validation: the first check that fails, or "ok"
Validate(s, d, t, temp_f, temp_c) ==
    IF ~MatchSite(s) THEN "parse_site"
    ELSE IF ~MatchDate(d) THEN "parse_date"
    ELSE IF ~MatchTime(t) THEN "parse_time"
    ELSE IF ~MatchTemp(temp_f, CH_F) THEN "parse_temp_f"
    ELSE IF ~MatchTemp(temp_c, CH_C) THEN "parse_temp_c"
    ELSE "ok"

\* The BarMetadata built from the validated strings
BarMetadata(s, temp_f, temp_c, d, t) ==
    [site |-> s,
     temp_f |-> StrToInt(SubSeq(temp_f, 1, Len(temp_f) - 1)),
     temp_c |-> StrToInt(SubSeq(temp_c, 1, Len(temp_c) - 1)),
     date |-> d,
     time |-> t]

\* Lines 716-737 on the refined temperatures temps
Outcome(s, d, t, temp_f, temp_c) ==
    IF Validate(s, d, t, temp_f, temp_c) # "ok"
    THEN [st |-> "raised", error |-> Validate(s, d, t, temp_f, temp_c),
          record |-> NoRecord]
    ELSE [st |-> "returned", error |-> "",
          record |-> BarMetadata(s, temp_f, temp_c, d, t)]

-----------------------------------------------------------------------------
(* extract_metadata: the steps of one call *)

Raised(err) == [st |-> "raised", error |-> err, record |-> NoRecord]

Raise(err) ==
    /\ pc' = "done"
    /\ result' = Raised(err)

MaxTokens == 5

\* Bars of at most MaxTokens tokens, no two drawn for the same thing
Bars ==
    UNION {{t \in [1..n -> TokenNames] :
               \A i, j \in 1..n : SlotOf(t[i]) = SlotOf(t[j]) => i = j} :
           n \in 0..MaxTokens}

Init ==
    /\ pc = "read_first_frame"
    /\ clip \in {[tokens |-> t] : t \in Bars}
    /\ bank \in Banks
    /\ fused_temp = NoFused
    /\ site = NoField /\ date = NoField /\ time = NoField
    /\ tf = NoTemp /\ tc = NoTemp
    /\ idx = 0
    /\ hints = NoHints
    /\ searched = <<>>
    /\ result = Running
    /\ dpc = "idle" /\ din = <<>> /\ dout = None
    /\ cap = NoCapture /\ detector = NoDetector /\ run = NoRun
    /\ db = NoDatabase /\ events = <<>>

\* read_first_frame answering an unreadable clip with an empty frame, from
\* which a record of defaults is returned
ReadFirstFrameDefaults ==
    /\ pc = "read_first_frame"
    /\ \E ok \in BOOLEAN :
        IF ok THEN pc' = "fused_scan" /\ UNCHANGED result
        ELSE /\ pc' = "done"
             /\ result' = [st |-> "returned", error |-> "",
                           record |-> [site |-> <<>>, temp_f |-> 0, temp_c |-> 0,
                                       date |-> <<>>, time |-> <<>>]]
    /\ UNCHANGED <<clip, bank, fused_temp, site, tf, tc, date, time, idx, hints,
                   searched, decVars, procVars>>

\* read_first_frame: the clip opens and a frame is read, or RuntimeError
ReadFirstFrame ==
    /\ pc = "read_first_frame"
    /\ \E ok \in BOOLEAN :
        IF ok THEN pc' = "fused_scan" /\ UNCHANGED result
        ELSE Raise("frame")
    /\ UNCHANGED <<clip, bank, fused_temp, site, tf, tc, date, time, idx, hints,
                   searched, decVars, procVars>>

\* Lines 628-637, then the hints of lines 656-659
FusedScan ==
    /\ pc = "fused_scan"
    /\ \E order \in KeyOrders, h \in HintSets :
        \E r \in {ScanFused(order)} :
            IF r.st = "index"
            THEN Raise("IndexError") /\ UNCHANGED <<fused_temp, hints>>
            ELSE /\ fused_temp' = r.fused
                 /\ hints' = h
                 /\ pc' = "find_site"
                 /\ UNCHANGED result
    /\ UNCHANGED <<clip, bank, site, tf, tc, date, time, idx, searched, decVars, procVars>>

\* site, idx = find_site(0)
FindSite ==
    /\ pc = "find_site"
    /\ searched' = Append(searched, "site")
    /\ \E r \in {find_site(0)} :
           CASE r.st = "found" ->
                  /\ site' = [text |-> r.text, idx |-> r.idx]
                  /\ idx' = r.idx /\ pc' = "find_temp_f"
                  /\ UNCHANGED result
             [] r.st = "index" -> Raise("IndexError") /\ UNCHANGED <<site, idx>>
             [] OTHER -> Raise("missing_site") /\ UNCHANGED <<site, idx>>
    /\ UNCHANGED <<clip, bank, fused_temp, tf, tc, date, time, hints, decVars, procVars>>

\* temp_f_val, temp_f_candidates, idx = find_temp(idx + 1, "F")
FindTempF ==
    /\ pc = "find_temp_f"
    /\ searched' = IF fused_temp.found THEN searched ELSE Append(searched, "temp_F")
    /\ \E r \in {find_temp(idx + 1, CH_F)} :
           CASE r.st = "found" ->
                  /\ tf' = [val |-> r.val, cands |-> r.cands, idx |-> r.idx]
                  /\ idx' = r.idx /\ pc' = "find_temp_c"
                  /\ UNCHANGED result
             [] r.st = "index" -> Raise("IndexError") /\ UNCHANGED <<tf, idx>>
             [] OTHER -> Raise("missing_temp_F") /\ UNCHANGED <<tf, idx>>
    /\ UNCHANGED <<clip, bank, fused_temp, site, tc, date, time, hints, decVars, procVars>>

\* temp_c_val, temp_c_candidates, idx = find_temp(idx + 1, "C")
FindTempC ==
    /\ pc = "find_temp_c"
    /\ searched' = IF fused_temp.found THEN searched ELSE Append(searched, "temp_C")
    /\ \E r \in {find_temp(idx + 1, CH_C)} :
           CASE r.st = "found" ->
                  /\ tc' = [val |-> r.val, cands |-> r.cands, idx |-> r.idx]
                  /\ idx' = r.idx /\ pc' = "find_date"
                  /\ UNCHANGED result
             [] r.st = "index" -> Raise("IndexError") /\ UNCHANGED <<tc, idx>>
             [] OTHER -> Raise("missing_temp_C") /\ UNCHANGED <<tc, idx>>
    /\ UNCHANGED <<clip, bank, fused_temp, site, tf, date, time, hints, decVars, procVars>>

\* date, idx = find_date(idx + 1)
FindDate ==
    /\ pc = "find_date"
    /\ searched' = Append(searched, "date")
    /\ \E r \in {find_date(idx + 1)} :
           IF r.st = "found"
           THEN /\ date' = [text |-> r.text, idx |-> r.idx]
                /\ idx' = r.idx /\ pc' = "find_time"
                /\ UNCHANGED result
           ELSE Raise("missing_date") /\ UNCHANGED <<date, idx>>
    /\ UNCHANGED <<clip, bank, fused_temp, site, tf, tc, time, hints, decVars, procVars>>

\* time, idx = find_time(idx + 1)
FindTime ==
    /\ pc = "find_time"
    /\ searched' = Append(searched, "time")
    /\ \E r \in {find_time(idx + 1)} :
           IF r.st = "found"
           THEN /\ time' = [text |-> r.text, idx |-> r.idx]
                /\ idx' = r.idx /\ pc' = "refine"
                /\ UNCHANGED result
           ELSE Raise("missing_time") /\ UNCHANGED <<time, idx>>
    /\ UNCHANGED <<clip, bank, fused_temp, site, tf, tc, date, hints, decVars, procVars>>

\* Lines 693-737: the consistency repair, the re-validation and the return
Finish ==
    /\ pc = "refine"
    /\ pc' = "done"
    /\ result' = Let(RefinedTemps(tf, tc), LAMBDA temps :
                     Outcome(site.text, date.text, time.text,
                             IntToStr(temps[1]) \o <<CH_F>>,
                             IntToStr(temps[2]) \o <<CH_C>>))
    /\ UNCHANGED <<clip, bank, fused_temp, site, tf, tc, date, time, idx, hints,
                   searched, decVars, procVars>>

Next ==
    \/ ReadFirstFrame
    \/ FusedScan
    \/ FindSite
    \/ FindTempF
    \/ FindTempC
    \/ FindDate
    \/ FindTime
    \/ Finish

Spec == Init /\ [][Next]_vars

-----------------------------------------------------------------------------
(* Properties of extract_metadata *)

\* [A-Z][0-9]{2}
IsSiteText(s) == Len(s) = 3 /\ s[1] \in 10..35 /\ s[2] \in 0..9 /\ s[3] \in 0..9

\* Two digits, a separator, two digits, a separator, then n digits
IsShaped(s, sep, n) ==
    /\ Len(s) = 6 + n
    /\ s[3] = sep /\ s[6] = sep
    /\ \A i \in (1..(6 + n)) \ {3, 6} : s[i] \in 0..9

\* C1: every call ends in an error without a record, or in a record whose five
\* fields have the final formats; while it runs there is no result, and a
\* frame that cannot be read ends it in an error.
C1_AllOrNothing ==
    /\ pc # "done" => result = Running
    /\ pc = "done" => result.st \in {"raised", "returned"}
    /\ result.st = "raised" => result.record = NoRecord /\ result.error # ""
    /\ result.st = "returned" =>
          /\ DOMAIN result.record = {"site", "temp_f", "temp_c", "date", "time"}
          /\ IsSiteText(result.record.site)
          /\ IsShaped(result.record.date, CH_DASH, 4)
          /\ IsShaped(result.record.time, CH_COLON, 2)
          /\ result.record.temp_f \in 0..999
          /\ result.record.temp_c \in 0..999

\* C1 witness: a record is returned from separately located F and C tokens
C1_Returned ==
    /\ result.st = "returned"
    /\ ~fused_temp.found
    /\ result.record.site = <<CH_F, 3, 2>>

\* Token i validates as the site: its constrained read has the site format
SiteAt(i) ==
    /\ ~SiteRead[TokenAt(i), bank].fails
    /\ IsSiteText(SiteRead[TokenAt(i), bank].text)

\* Token i validates as a temperature of the given suffix
TempAt(i, suffix) ==
    /\ NSegs(i) \in 2..4
    /\ TempDecoded[TokenAt(i), bank, suffix].ok

DateAt(i) == DateDecoded[TokenAt(i), bank, hints].ok

TimeAt(i) == TimeDecoded[TokenAt(i), bank, hints].ok

\* No token from index from on satisfies P
NoneFrom(from, P(_)) == \A i \in from..(NTokens - 1) : ~P(i)

\* k is the first index from index from on that satisfies P
FirstFrom(from, k, P(_)) ==
    /\ k \in from..(NTokens - 1)
    /\ P(k)
    /\ \A i \in from..(k - 1) : ~P(i)

\* The temperatures were located before the date search: by the fused token,
\* or by the two searches, each from one past the token located before
TempsLocated ==
    IF fused_temp.found
    THEN searched[2] = "date"
    ELSE /\ SubSeq(searched, 2, 3) = <<"temp_F", "temp_C">>
         /\ FirstFrom(site.idx + 1, tf.idx, LAMBDA i : TempAt(i, CH_F))
         /\ FirstFrom(tf.idx + 1, tc.idx, LAMBDA i : TempAt(i, CH_C))

\* C2: a missing-token error names the first field, in the order site, temp_F,
\* temp_C, date, time, whose search from one past the previously located token
\* finds no validating token: every earlier field was located at the first
\* validating token of its search, the named field has none, and no later
\* field was searched.  A bar without a site-format token (an empty bar is
\* one) fails naming the site.
C2_FirstMissingField ==
    /\ result.error = "missing_site" =>
          /\ searched = <<"site">>
          /\ NoneFrom(0, SiteAt)
    /\ result.error = "missing_temp_F" =>
          /\ searched = <<"site", "temp_F">>
          /\ FirstFrom(0, site.idx, SiteAt)
          /\ NoneFrom(site.idx + 1, LAMBDA i : TempAt(i, CH_F))
    /\ result.error = "missing_temp_C" =>
          /\ searched = <<"site", "temp_F", "temp_C">>
          /\ FirstFrom(0, site.idx, SiteAt)
          /\ FirstFrom(site.idx + 1, tf.idx, LAMBDA i : TempAt(i, CH_F))
          /\ NoneFrom(tf.idx + 1, LAMBDA i : TempAt(i, CH_C))
    /\ result.error = "missing_date" =>
          /\ searched[Len(searched)] = "date"
          /\ FirstFrom(0, site.idx, SiteAt)
          /\ TempsLocated
          /\ NoneFrom(tc.idx + 1, DateAt)
    /\ result.error = "missing_time" =>
          /\ searched[Len(searched)] = "time"
          /\ searched[Len(searched) - 1] = "date"
          /\ FirstFrom(0, site.idx, SiteAt)
          /\ TempsLocated
          /\ FirstFrom(tc.idx + 1, date.idx, DateAt)
          /\ NoneFrom(date.idx + 1, TimeAt)
    /\ (pc = "done" /\ result.error # "frame" /\ NoneFrom(0, SiteAt)) =>
          result.error = "missing_site"

\* C2 witness: the temp_C search fails although a date token follows the site,
\* and neither the date nor the time is searched
C2_MissingTempC ==
    /\ result.error = "missing_temp_C"
    /\ \E i \in 0..(NTokens - 1) : DateAt(i)
    /\ searched = <<"site", "temp_F", "temp_C">>

\* C3: in a successful extraction the token indices of the fields satisfy
\* site < temp_F <= temp_C < date < time, with temp_F = temp_C only when both
\* come from one fused token.
C3_FieldOrder ==
    result.st = "returned" =>
        /\ site.idx < tf.idx
        /\ tf.idx <= tc.idx
        /\ (tf.idx = tc.idx => fused_temp.found)
        /\ tc.idx < date.idx
        /\ date.idx < time.idx

\* C4: every returned record has 0 <= temp_f <= 200 and -20 <= temp_c <= 100.
C4_TempRanges ==
    result.st = "returned" =>
        /\ 0 <= result.record.temp_f /\ result.record.temp_f <= 200
        /\ -20 <= result.record.temp_c /\ result.record.temp_c <= 100

\* The text is digits, F, digits, C and nothing else: <<f, c>> of its numbers,
\* or <<>> when it has another form
FusedNumbers(text) ==
    IF \E k \in 2..(Len(text) - 2) :
           /\ text[k] = CH_F /\ text[Len(text)] = CH_C
           /\ \A i \in (1..(Len(text) - 1)) \ {k} : text[i] \in 0..9
    THEN Let(CHOOSE k \in 2..(Len(text) - 2) : text[k] = CH_F, LAMBDA k :
             <<StrToInt(SubSeq(text, 1, k - 1)),
               StrToInt(SubSeq(text, k + 1, Len(text) - 1))>>)
    ELSE <<>>

\* Token i has at least 4 segments and its unconstrained read is digits, F,
\* digits, C
FusedTokenAt(i) ==
    /\ NSegs(i) >= 4
    /\ \A o \in KeyOrders : FusedNumbers(GenericRead[TokenAt(i), bank, o].text) # <<>>

\* C5: when some token of at least 4 segments reads as digits-F-digits-C, the
\* returned temperatures are the two numbers of the lowest-index such token,
\* and no temp_F or temp_C search is made.
C5_FusedValues ==
    (result.st = "returned" /\ \E i \in 0..(NTokens - 1) : FusedTokenAt(i)) =>
        \E k \in 0..(NTokens - 1) :
            /\ FirstFrom(0, k, FusedTokenAt)
            /\ <<result.record.temp_f, result.record.temp_c>>
                   = FusedNumbers(GenericRead[TokenAt(k), bank, "asc"].text)
            /\ \A j \in 1..Len(searched) : searched[j] \notin {"temp_F", "temp_C"}

\* 9 * |c - (f - 32) * 5 / 9|, the exact conversion discrepancy in ninths
Disc9(f, c) == Abs(9 * c - 5 * (f - 32))

\* The (F-candidate, C-candidate) pairs, as [f, c, score]
CandidatePairs ==
    {[f |-> tf.cands[i][1], c |-> tc.cands[j][1],
      score |-> tf.cands[i][2] + tc.cands[j][2]] :
        i \in 1..Len(tf.cands), j \in 1..Len(tc.cands)}

\* C9: when the decoded pair is more than 2.0 apart and both fields have
\* candidates, the returned pair has the least discrepancy of all candidate
\* pairs and, among the pairs of least discrepancy, the highest combined
\* score; so it is less than 2.0 apart whenever some candidate pair is.
C9_RepairChoice ==
    (/\ result.st = "returned"
     /\ Len(tf.cands) > 0 /\ Len(tc.cands) > 0
     /\ Disc9(tf.val, tc.val) > 18) =>
        \E p \in CandidatePairs :
            /\ p.f = result.record.temp_f /\ p.c = result.record.temp_c
            /\ \A o \in CandidatePairs :
                  \/ Disc9(p.f, p.c) < Disc9(o.f, o.c)
                  \/ (Disc9(p.f, p.c) = Disc9(o.f, o.c) /\ p.score >= o.score)

\* C10: when the decoded temperatures are at most 2.0 apart, exactly 2.0
\* included, the returned temperatures are the decoded ones.
C10_KeptAsDecoded ==
    (result.st = "returned" /\ Disc9(tf.val, tc.val) <= 18) =>
        /\ result.record.temp_f = tf.val
        /\ result.record.temp_c = tc.val

\* C10 witness: the decoded pair is exactly 2.0 apart, kept, although a
\* candidate pair is closer
C10_KeptAtThreshold ==
    /\ result.st = "returned"
    /\ Disc9(tf.val, tc.val) = 18
    /\ \E p \in CandidatePairs : Disc9(p.f, p.c) < 18
    /\ result.record.temp_f = tf.val /\ result.record.temp_c = tc.val

-----------------------------------------------------------------------------
(* Properties of the field decoders *)

\* The number written by the characters s[from..to]
NumberAt(s, from, to) == StrToInt(SubSeq(s, from, to))

\* The days of a month of the Gregorian calendar
DaysIn(m, y) ==
    IF m \in {4, 6, 9, 11} THEN 30
    ELSE IF m # 2 THEN 31
    ELSE IF y % 4 = 0 /\ (y % 100 # 0 \/ y % 400 = 0) THEN 29
    ELSE 28

\* The text is MM-DD-YYYY and names a day of the calendar in 2000..2099
IsCalendarDate(s) ==
    /\ IsShaped(s, CH_DASH, 4)
    /\ NumberAt(s, 1, 2) \in 1..12
    /\ NumberAt(s, 7, 10) \in 2000..2099
    /\ NumberAt(s, 4, 5) \in 1..DaysIn(NumberAt(s, 1, 2), NumberAt(s, 7, 10))

\* The text is HH:MM:SS and names a second of the day
IsClockTime(s) ==
    /\ IsShaped(s, CH_COLON, 2)
    /\ NumberAt(s, 1, 2) \in 0..23
    /\ NumberAt(s, 4, 5) \in 0..59
    /\ NumberAt(s, 7, 8) \in 0..59

\* C6: a date returned by decode_date_token, under any hints, is a day of the
\* calendar with the year in 2000..2099; 02-30-2025 and 02-29-2025 are not
\* returned.
C6_RealDates ==
    (dpc = "returned" /\ din.kind = "date" /\ dout.ok) =>
        /\ IsCalendarDate(dout.text)
        /\ dout.text # <<0, 2, CH_DASH, 3, 0, CH_DASH, 2, 0, 2, 5>>
        /\ dout.text # <<0, 2, CH_DASH, 2, 9, CH_DASH, 2, 0, 2, 5>>

\* C6 witness: 02-29-2024 is returned for a token whose best digits spell
\* 02-39-2025, with no hint
C6_LeapDayReturned ==
    /\ dpc = "returned" /\ din.kind = "date" /\ dout.ok
    /\ din.mmdd = NoHint /\ din.year = NoHint
    /\ dout.text = <<0, 2, CH_DASH, 2, 9, CH_DASH, 2, 0, 2, 4>>
    /\ ocr_token(din.token, SynthBank, "date", "asc").text
           = <<0, 2, CH_DASH, 3, 9, CH_DASH, 2, 0, 2, 5>>

\* C7: a time returned by decode_time_token, with or without a hint, is
\* HH:MM:SS with the hour in 0..23 and the minute and second in 0..59, and is
\* returned for a token of 8 segments only.
C7_ValidTimes ==
    (dpc = "returned" /\ din.kind = "time" /\ dout.ok) =>
        /\ IsClockTime(dout.text)
        /\ Len(din.token) = 8

\* C7 witness: a time is returned for a token whose best digits spell the
\* hour 29, under a hint of the hour 29
C7_HourRepaired ==
    /\ dpc = "returned" /\ din.kind = "time" /\ dout.ok
    /\ din.hms = <<29, 1, 29>>
    /\ SubSeq(ocr_token(din.token, SynthBank, "time", "asc").text, 1, 2) = <<2, 9>>

\* The (0-based) digit positions of a token of the given kind
DigitPositions(kind, token) ==
    CASE kind = "date" -> <<0, 1, 3, 4, 6, 7, 8, 9>>
      [] kind = "time" -> <<0, 1, 3, 4, 6, 7>>
      [] OTHER -> [i \in 1..(Len(token) - 1) |-> i - 1]

\* The digits make a value the field accepts
IsValidValue(kind, d) ==
    CASE kind = "date" ->
            IsCalendarDate(<<d[1], d[2], CH_DASH, d[3], d[4], CH_DASH,
                             d[5], d[6], d[7], d[8]>>)
      [] kind = "time" ->
            IsClockTime(<<d[1], d[2], CH_COLON, d[3], d[4], CH_COLON, d[5], d[6]>>)
      [] kind = "temp_f" -> StrToInt(d) \in 0..200
      [] OTHER -> StrToInt(d) \in 0..100

\* The valid combinations of the per-position candidates of the decoded token
ValidCombinations ==
    Let(Combos(DigitCandidates(din.token, SynthBank,
                               DigitPositions(din.kind, din.token), TopK)),
        LAMBDA rows :
            {rows[k] : k \in {j \in 1..Len(rows) : IsValidValue(din.kind, rows[j].digits)}})

\* a <= b in the lexicographic order of digit strings of one length
LexLeq(a, b) ==
    \/ a = b
    \/ \E i \in 1..Len(a) : a[i] < b[i] /\ \A j \in 1..(i - 1) : a[j] = b[j]

\* The digits of a decoded text
DigitsOf(text) == SelectSeq(text, IsDigit)

\* C8: without hints, the value a decoder returns is a valid combination of
\* the greatest combined score, and of the valid combinations of that score
\* the one whose digit string is lexicographically smallest.
C8_BestLexSmallest ==
    (/\ dpc = "returned" /\ dout.ok
     /\ din.mmdd = NoHint /\ din.year = NoHint /\ din.hms = NoHint) =>
        Let(ValidCombinations, LAMBDA valid :
            \E r \in valid :
                /\ StrToInt(r.digits) = StrToInt(DigitsOf(dout.text))
                /\ r.score = dout.score
                /\ \A o \in valid :
                      \/ o.score < r.score
                      \/ (o.score = r.score /\ LexLeq(r.digits, o.digits)))


\* The month, day and year (hour, minute and second) a digit string spells
FirstField(d) == <<StrToInt(SubSeq(d, 1, 2)), StrToInt(SubSeq(d, 3, 4))>>

YearField(d) == <<StrToInt(SubSeq(d, 5, 8))>>

ClockField(d) ==
    <<StrToInt(SubSeq(d, 1, 2)), StrToInt(SubSeq(d, 3, 4)), StrToInt(SubSeq(d, 5, 6))>>

\* The members of set that match the hint if a hint is given and some member
\* matches it, and set itself otherwise
KeptByHint(set, hint, Field(_)) ==
    IF hint # NoHint /\ \E r \in set : Field(r.digits) = hint
    THEN {r \in set : Field(r.digits) = hint}
    ELSE set

\* The candidates the hints of the decoded call leave
HintedCandidates ==
    IF din.kind = "date"
    THEN KeptByHint(KeptByHint(ValidCombinations, din.mmdd, FirstField),
                    din.year, YearField)
    ELSE KeptByHint(ValidCombinations, din.hms, ClockField)

\* C11: a date (time) a decoder returns is a member of the greatest score of
\* the valid candidates filtered by the month/day hint and then by the year
\* hint (by the time hint), where a filter that would leave no candidate is
\* not applied.
C11_HintFiltering ==
    (dpc = "returned" /\ din.kind \in {"date", "time"} /\ dout.ok) =>
        Let(HintedCandidates, LAMBDA kept :
            \E r \in kept :
                /\ r.digits = DigitsOf(dout.text)
                /\ r.score = dout.score
                /\ \A o \in kept : o.score <= r.score)

\* C11 witness: the month/day hint 02-29 is applied, and the year hint 2025 is
\* not, because no 02-29 candidate has that year although other valid
\* candidates have it
C11_YearFilterSkipped ==
    /\ dpc = "returned" /\ din.kind = "date" /\ dout.ok
    /\ din.mmdd = <<2, 29>> /\ din.year = <<2025>>
    /\ FirstField(DigitsOf(dout.text)) = <<2, 29>>
    /\ YearField(DigitsOf(dout.text)) = <<2024>>
    /\ \E r \in ValidCombinations :
          YearField(r.digits) = <<2025>> /\ r.score > dout.score

\* The result of the decoded call when it is made without hints
DecodedWithoutHints ==
    IF din.kind = "date"
    THEN decode_date_token(din.token, SynthBank, TopK, NoHint, NoHint)
    ELSE decode_time_token(din.token, SynthBank, TopK, NoHint)

\* C12: hints only break ties: a decoder returns a value with hints exactly
\* when it returns one without hints, and the two have the same combined
\* score.
C12_HintsOnlyBreakTies ==
    (dpc = "returned" /\ din.kind \in {"date", "time"}) =>
        Let(DecodedWithoutHints, LAMBDA plain :
            /\ dout.ok = plain.ok
            /\ dout.ok => dout.score = plain.score)

-----------------------------------------------------------------------------
(* build_template_bank: the construction of a TemplateBank *)

\* The expected strings engine.py passes by default
ExpectedSite == <<CH_F, 3, 2>>

ExpectedTempF == <<8, 2, CH_F>>

ExpectedTempC == <<2, 7, CH_C>>

ExpectedDate == <<0, 1, CH_DASH, 0, 9, CH_DASH, 2, 0, 2, 6>>

ExpectedTime == <<1, 6, CH_COLON, 0, 1, CH_COLON, 2, 9>>

DefaultExpected ==
    <<ExpectedSite, ExpectedTempF, ExpectedTempC, ExpectedDate, ExpectedTime>>

\* The expected_tokens a caller passes
ExpectedTokenLists ==
    {DefaultExpected,
     <<ExpectedSite, ExpectedDate, ExpectedTime>>,
     <<ExpectedSite, ExpectedTempF>>,
     <<ExpectedDate>>,
     <<ExpectedSite, ExpectedTempF, ExpectedTempC, ExpectedTempC, ExpectedDate,
       ExpectedTime>>,
     <<ExpectedTime, ExpectedDate>>,
     <<>>}

\* while idx < len(tokens) and len(tokens[idx]) != target_len: idx += 1
RECURSIVE SkipToLength(_, _, _)
SkipToLength(tokens, i, target_len) ==
    IF i < Len(tokens) /\ Len(tokens[i + 1]) # target_len
    THEN SkipToLength(tokens, i + 1, target_len)
    ELSE i

\* The loop "for token_str in expected_tokens" from its k-th string on: the
\* (0-based) indices of the selected tokens, or a failure
RECURSIVE SelectTokens(_, _, _, _, _)
SelectTokens(tokens, expected_tokens, k, i, selected) ==
    IF k > Len(expected_tokens) THEN [ok |-> TRUE, selected |-> selected]
    ELSE Let(SkipToLength(tokens, i, Len(expected_tokens[k])), LAMBDA found :
             IF found >= Len(tokens)
             THEN [ok |-> FALSE, selected |-> selected]
             ELSE SelectTokens(tokens, expected_tokens, k + 1, found + 1,
                               Append(selected, found)))

\* zip(token_segs, token_str) of every selected token, in order: the
\* (character, glyph) pairs appended to the templates
RECURSIVE GlyphPairs(_, _, _, _)
GlyphPairs(tokens, selected, expected_tokens, k) ==
    IF k > Len(selected) THEN <<>>
    ELSE [p \in 1..Min(Len(tokens[selected[k] + 1]), Len(expected_tokens[k])) |->
             <<expected_tokens[k][p], tokens[selected[k] + 1][p]>>]
         \o GlyphPairs(tokens, selected, expected_tokens, k + 1)

\* templates[ch] = [glyph]: each character keeps the last glyph only
CalibrationTemplatesOverwrite(pairs) ==
    [ch \in {pairs[p][1] : p \in 1..Len(pairs)} |->
        Let(SelectSeq(pairs, LAMBDA q : q[1] = ch), LAMBDA mine :
            <<mine[Len(mine)][2]>>)]

\* templates.setdefault(ch, []).append(glyph): the glyphs stored per character
CalibrationTemplates(pairs) ==
    [ch \in {pairs[p][1] : p \in 1..Len(pairs)} |->
        Let(SelectSeq(pairs, LAMBDA q : q[1] = ch), LAMBDA mine :
            [p \in 1..Len(mine) |-> mine[p][2]] \o <<>>)]

\* TemplateBank(templates, synth_templates), the maps holding glyph counts
TemplateBank(templates) ==
    [templates |-> [ch \in DOMAIN templates |-> Len(templates[ch])],
     synth_templates |-> [ch \in Chars |-> 18]]

NoBank == [templates |-> <<>>, synth_templates |-> <<>>]

NoCalibration == [ok |-> FALSE, selected |-> <<>>, templates |-> <<>>]

\* build_templates_from_calibration on the tokens of the reference bar
build_templates_from_calibration(tokens, expected_tokens) ==
    Let(SelectTokens(tokens, expected_tokens, 1, 0, <<>>), LAMBDA sel :
        IF ~sel.ok
        THEN [ok |-> FALSE, error |-> "calibration_failed",
              selected |-> sel.selected, templates |-> <<>>]
        ELSE IF \E k \in 1..Len(sel.selected) :
                    Len(tokens[sel.selected[k] + 1]) # Len(expected_tokens[k])
        THEN [ok |-> FALSE, error |-> "calibration_token_mismatch",
              selected |-> sel.selected, templates |-> <<>>]
        ELSE [ok |-> TRUE, error |-> "", selected |-> sel.selected,
              templates |-> CalibrationTemplates(
                  GlyphPairs(tokens, sel.selected, expected_tokens, 1))])

\* The tokens split_tokens gives for a reference bar
BarTokens(names) == [i \in 1..Len(names) |-> Tok(names[i])] \o <<>>

\* A bank is being built from a calibration clip, or from nothing
CalInit ==
    /\ pc = "build_template_bank"
    /\ clip \in {[tokens |-> t] : t \in Bars}
    /\ din \in {[kind |-> k, expected_tokens |-> e] :
                   k \in {"calibration", "generic"}, e \in ExpectedTokenLists}
    /\ dout = NoCalibration
    /\ bank = NoBank
    /\ result = Running
    /\ dpc = "idle"
    /\ fused_temp = NoFused /\ site = NoField /\ tf = NoTemp /\ tc = NoTemp
    /\ date = NoField /\ time = NoField /\ idx = 0 /\ hints = NoHints
    /\ searched = <<>>
    /\ cap = NoCapture /\ detector = NoDetector /\ run = NoRun
    /\ db = NoDatabase /\ events = <<>>

\* build_template_bank with a calibration clip that exists
BuildFromCalibration ==
    /\ pc = "build_template_bank"
    /\ din.kind = "calibration"
    /\ pc' = "done"
    /\ \E ok \in BOOLEAN :
        IF ~ok
        THEN /\ result' = Raised("frame")
             /\ UNCHANGED <<bank, dout>>
        ELSE \E r \in {build_templates_from_calibration(BarTokens(clip.tokens),
                                                         din.expected_tokens)} :
            /\ dout' = [ok |-> r.ok, selected |-> r.selected,
                        templates |-> r.templates]
            /\ IF r.ok
               THEN /\ bank' = TemplateBank(r.templates)
                    /\ result' = [st |-> "returned", error |-> "",
                                  record |-> NoRecord]
               ELSE /\ result' = Raised(r.error)
                    /\ UNCHANGED bank
    /\ UNCHANGED <<clip, din, dpc, fused_temp, site, tf, tc, date, time, idx,
                   hints, searched, procVars>>

\* build_template_bank without a calibration clip: synthetic templates only
BuildGeneric ==
    /\ pc = "build_template_bank"
    /\ din.kind = "generic"
    /\ pc' = "done"
    /\ bank' = TemplateBank(<<>>)
    /\ result' = [st |-> "returned", error |-> "", record |-> NoRecord]
    /\ UNCHANGED <<clip, din, dout, dpc, fused_temp, site, tf, tc, date, time,
                   idx, hints, searched, procVars>>

CalNext == BuildFromCalibration \/ BuildGeneric

SpecCalib == CalInit /\ [][CalNext]_vars

-----------------------------------------------------------------------------
(* Properties of the calibration *)

\* The reference bar has a token for every expected string, the k-th token
\* having as many segments as the k-th string has characters
InOrderMatch ==
    /\ Len(din.expected_tokens) <= Len(clip.tokens)
    /\ \A k \in 1..Len(din.expected_tokens) :
          Len(Tok(clip.tokens[k])) = Len(din.expected_tokens[k])

\* C13: calibration assigns the k-th expected string to the k-th token, and
\* fails with an error when a token's segment count differs from the length
\* of the string it is matched against; no token is skipped to reach a later
\* token of the right length.
C13_NoSilentSkip ==
    (pc = "done" /\ din.kind = "calibration" /\ result.error # "frame") =>
        /\ result.st = "returned" <=> InOrderMatch
        /\ result.st = "returned" =>
               dout.selected = [k \in 1..Len(din.expected_tokens) |-> k - 1]
        /\ result.st = "raised" =>
               result.error \in {"calibration_failed", "calibration_token_mismatch"}

\* The (string, position) places of the expected strings, in order
RECURSIVE ExpectedPlaces(_, _)
ExpectedPlaces(expected_tokens, k) ==
    IF k > Len(expected_tokens) THEN <<>>
    ELSE [p \in 1..Len(expected_tokens[k]) |-> <<k, p>>]
         \o ExpectedPlaces(expected_tokens, k + 1)

\* The places where the character c occurs in the expected strings
OccurrencesOf(c) ==
    SelectSeq(ExpectedPlaces(din.expected_tokens, 1),
              LAMBDA q : din.expected_tokens[q[1]][q[2]] = c)

\* C14: after a successful calibration every character has as many
\* calibration templates as it has occurrences in the expected strings, each
\* the glyph of the segment at the occurrence's position in the matched
\* token; a character has an entry exactly when it occurs.
C14_OneGlyphPerCharacter ==
    (pc = "done" /\ din.kind = "calibration" /\ result.st = "returned") =>
        \A c \in Chars :
            Let(OccurrencesOf(c), LAMBDA occ :
                /\ c \in DOMAIN bank.templates <=> Len(occ) > 0
                /\ c \in DOMAIN dout.templates <=> Len(occ) > 0
                /\ Len(occ) > 0 =>
                      /\ bank.templates[c] = Len(occ)
                      /\ dout.templates[c] =
                            [n \in 1..Len(occ) |->
                                Tok(clip.tokens[dout.selected[occ[n][1]] + 1])[occ[n][2]]])

\* C14 witness: calibrating with F32, 82F, 27C, 01-09-2026, 16:01:29 on a bar
\* of five tokens gives the bank with an entry for each of their characters
C14_DefaultCalibration ==
    /\ pc = "done" /\ din.kind = "calibration" /\ result.st = "returned"
    /\ din.expected_tokens = DefaultExpected
    /\ bank = CalibratedBank
    /\ DOMAIN bank.templates =
           {0, 1, 2, 3, 6, 7, 8, 9, CH_F, CH_C, CH_COLON, CH_DASH}

-----------------------------------------------------------------------------
(* The bar extractor and the tokenizer *)

\* int(round(n / d)) for n >= 0, d > 0: Python rounds halves to even
RoundDiv(n, d) ==
    IF 2 * (n % d) > d THEN (n \div d) + 1
    ELSE IF 2 * (n % d) < d THEN n \div d
    ELSE IF (n \div d) % 2 = 0 THEN n \div d
    ELSE (n \div d) + 1

\* The indices a[start:stop] selects from a sequence of n rows: a negative
\* bound counts from the end, and a bound outside the sequence is clipped
SliceBound(n, b) == IF b < 0 THEN Max(0, b + n) ELSE Min(b, n)

PySlice(n, start, stop) ==
    [k \in 1..Max(0, SliceBound(n, stop) - SliceBound(n, start)) |->
        SliceBound(n, start) + k - 1]

\* bar_h = max(32, int(round(h * (56 / 1080))))
BarHeight(h) == Max(32, RoundDiv(h * 56, 1080))

\* extract_bottom_bar on a frame of h rows: the rows of the bar, and (start, end)
extract_bottom_bar(h) ==
    [rows |-> PySlice(h, h - BarHeight(h), (h - 1) + 1),
     start |-> h - BarHeight(h),
     end |-> h - 1]

\* mask = col_sum > max(2, int(h * min_col_frac)) without the floor of 2
ColumnMaskNoFloor(h, col_sum) ==
    [i \in 1..Len(col_sum) |-> col_sum[i] > (h * 5) \div 100]

\* min_pixels = max(2, int(h * min_col_frac)); mask = col_sum > min_pixels
ColumnMask(h, col_sum) ==
    [i \in 1..Len(col_sum) |-> col_sum[i] > Max(2, (h * 5) \div 100)]

\* start = None
NoStart == -1

\* The loop of column_segments from column i (0-based) on, and the code after it
RECURSIVE SegmentsFrom(_, _, _, _)
SegmentsFrom(mask, i, start, segments) ==
    IF i = Len(mask)
    THEN IF start # NoStart THEN Append(segments, <<start, Len(mask)>>)
         ELSE segments
    ELSE IF mask[i + 1] /\ start = NoStart
    THEN SegmentsFrom(mask, i + 1, i, segments)
    ELSE IF ~mask[i + 1] /\ start # NoStart
    THEN SegmentsFrom(mask, i + 1, NoStart,
                      IF i - start > 1 THEN Append(segments, <<start, i>>)
                      ELSE segments)
    ELSE SegmentsFrom(mask, i + 1, start, segments)

\* column_segments on a binarized bar of h rows whose columns hold col_sum
\* foreground pixels
column_segments(h, col_sum) ==
    Let(ColumnMask(h, col_sum) \o <<>>, LAMBDA mask :
        [mask |-> mask, segments |-> SegmentsFrom(mask, 0, NoStart, <<>>)])

\* gaps = [segments[i][0] - segments[i - 1][1] for i in range(1, len(segments))]
GapsOf(segments) ==
    [i \in 1..(Len(segments) - 1) |-> segments[i + 1][1] - segments[i][2]] \o <<>>

\* The k-th smallest element of a sequence
KthSmallest(s, k) ==
    CHOOSE v \in {s[i] : i \in 1..Len(s)} :
        /\ Cardinality({i \in 1..Len(s) : s[i] < v}) < k
        /\ Cardinality({i \in 1..Len(s) : s[i] <= v}) >= k

\* med_gap * gap_factor with gap_factor = 2.0: twice np.median(gaps), the
\* mean of the two middle gaps when their number is even; 8.0 * 2.0 without gaps
TwiceMedian(gaps) ==
    IF Len(gaps) = 0 THEN 16
    ELSE IF Len(gaps) % 2 = 1 THEN 2 * KthSmallest(gaps, (Len(gaps) + 1) \div 2)
    ELSE KthSmallest(gaps, Len(gaps) \div 2)
         + KthSmallest(gaps, (Len(gaps) \div 2) + 1)

\* gap_thresh = max(12.0, med_gap * gap_factor)
GapThreshold(gaps) == Max(12, TwiceMedian(gaps))

\* The loop of split_tokens from segment i (1-based) on, and the code after it
RECURSIVE TokensFrom(_, _, _, _, _)
TokensFrom(segments, gap_thresh, i, current, tokens) ==
    IF i > Len(segments) THEN Append(tokens, current)
    ELSE IF segments[i][1] - segments[i - 1][2] > gap_thresh
    THEN TokensFrom(segments, gap_thresh, i + 1, <<segments[i]>>,
                    Append(tokens, current))
    ELSE TokensFrom(segments, gap_thresh, i + 1, Append(current, segments[i]),
                    tokens)

\* split_tokens
split_tokens(segments) ==
    IF Len(segments) = 0 THEN <<>>
    ELSE IF Len(segments) = 1 THEN <<segments>>
    ELSE TokensFrom(segments, GapThreshold(GapsOf(segments)), 2,
                    <<segments[1]>>, <<>>)

-----------------------------------------------------------------------------
(* normalize_glyph.  An image is its height, its width and the set of its
   foreground pixels <<y, x>> (the pixels > 0). *)

GlyphSize == 32

GlyphPad == 2

Image(h, w, ink) == [h |-> h, w |-> w, ink |-> ink]

\* np.zeros((size, size))
Blank(size) == Image(size, size, {})

SetMin(S) == CHOOSE v \in S : \A u \in S : v <= u

SetMax(S) == CHOOSE v \in S : \A u \in S : u <= v

\* The sum of F over lo..hi
SumRange(lo, hi, F(_)) == SumSeq([k \in 1..(hi - lo + 1) |-> F(lo + k - 1)])

\* The part of source pixel x, in units of 1/size of a pixel, that destination
\* pixel i covers when side pixels are resized to size pixels
Overlap(i, x, side, size) ==
    Max(0, Min((i + 1) * side, size * (x + 1)) - Max(i * side, size * x))

\* The foreground, in squared units, under destination pixel (i, j)
Covered(canvas, i, j, side, size) ==
    SumRange((i * side) \div size, Min(side - 1, ((i + 1) * side - 1) \div size),
        LAMBDA y :
        SumRange((j * side) \div size, Min(side - 1, ((j + 1) * side - 1) \div size),
            LAMBDA x :
                IF <<y, x>> \in canvas
                THEN Overlap(i, y, side, size) * Overlap(j, x, side, size)
                ELSE 0))

\* cv2.resize(canvas, (size, size), interpolation=cv2.INTER_AREA) of a square
\* canvas with side >= size, then cv2.threshold(resized, 0, 255, THRESH_BINARY):
\* a destination pixel is the mean of the source pixels (0 or 255) weighted by
\* the area it covers of each, rounded to an integer, and is foreground when
\* that is > 0, i.e. when 255 * covered / side^2 >= 1/2.
ResizeArea(canvas, side, size) ==
    IF side = size THEN canvas
    ELSE {p \in (0..(size - 1)) \X (0..(size - 1)) :
             510 * Covered(canvas, p[1], p[2], side, size) >= side * side}

\* normalize_glyph
normalize_glyph(img, size) ==
    IF img.ink = {} THEN Blank(size)
    ELSE
    Let(<<SetMin({p[1] : p \in img.ink}), SetMax({p[1] : p \in img.ink}) + 1,
          SetMin({p[2] : p \in img.ink}), SetMax({p[2] : p \in img.ink}) + 1>>,
        LAMBDA box :
        Let(Max(box[2] - box[1], box[4] - box[3]) + GlyphPad * 2, LAMBDA side :
        Let({<<p[1] - box[1] + (side - (box[2] - box[1])) \div 2,
               p[2] - box[3] + (side - (box[4] - box[3])) \div 2>> : p \in img.ink},
            LAMBDA canvas :
                Image(size, size, ResizeArea(canvas, side, size)))))

\* A filled h x w rectangle with the pixels of the given rectangles cleared
Rect(h, w, holes) ==
    Image(h, w,
          {p \in (0..(h - 1)) \X (0..(w - 1)) :
              \A q \in holes : ~(/\ q[1] <= p[1] /\ p[1] < q[2]
                                 /\ q[3] <= p[2] /\ p[2] < q[4])})

-----------------------------------------------------------------------------
(* Harness: one call of a function of the bar extractor, the tokenizer or the
   glyph normalizer *)

\* Frames of 1 to 64 rows and of the usual video heights
FrameHeights == (1..64) \cup {240, 480, 720, 1080, 2160}

\* Binarized bars: their height and the foreground count of each column
BarColumns ==
    {[h |-> h, col_sum |-> c] :
        h \in {32, 37, 40, 56, 60, 100},
        c \in UNION {[1..n -> {0, 2, 3, 5, 6}] : n \in 0..4}}
    \cup {[h |-> 56, col_sum |-> c] : c \in UNION {[1..n -> {0, 9}] : n \in 5..6}}

\* Segments of width 4 separated by the given gaps, the first at column 10
RECURSIVE SegmentsWithGaps(_, _)
SegmentsWithGaps(x0, gaps) ==
    IF Len(gaps) = 0 THEN <<<<x0, x0 + 4>>>>
    ELSE <<<<x0, x0 + 4>>>> \o SegmentsWithGaps(x0 + 4 + gaps[1], Tail(gaps))

SegmentLists ==
    {<<>>} \cup {SegmentsWithGaps(10, g) :
                    g \in UNION {[1..n -> {3, 7, 13, 17, 40}] : n \in 0..4}}

\* Glyphs at least 28 pixels high or wide, which cv2.resize shrinks or copies,
\* and a glyph without ink
Glyphs ==
    {Rect(28, 28, {}), Rect(28, 20, {<<3, 25, 3, 17>>}), Rect(30, 30, {}),
     Rect(30, 20, {<<3, 27, 3, 17>>}), Rect(30, 30, {<<10, 13, 10, 13>>}),
     Rect(30, 4, {}), Rect(60, 40, {<<6, 54, 6, 34>>}), Image(12, 9, {})}

ImageInputs ==
    {[kind |-> "frame", h |-> h] : h \in FrameHeights}
    \cup {[kind |-> "bar", h |-> b.h, col_sum |-> b.col_sum] : b \in BarColumns}
    \cup {[kind |-> "segments", segments |-> s] : s \in SegmentLists}
    \cup {[kind |-> "glyph", img |-> g] : g \in Glyphs}

ImgInit ==
    /\ dpc = "call"
    /\ din \in ImageInputs
    /\ dout = <<>>
    /\ pc = "idle" /\ clip = [tokens |-> <<>>] /\ bank = SynthBank
    /\ fused_temp = NoFused /\ site = NoField /\ tf = NoTemp /\ tc = NoTemp
    /\ date = NoField /\ time = NoField /\ idx = 0 /\ hints = NoHints
    /\ searched = <<>> /\ result = Running
    /\ cap = NoCapture /\ detector = NoDetector /\ run = NoRun
    /\ db = NoDatabase /\ events = <<>>

\* bar, _ = extract_bottom_bar(frame)
ExtractBottomBar ==
    /\ dpc = "call" /\ din.kind = "frame"
    /\ dout' = extract_bottom_bar(din.h)
    /\ dpc' = "returned"
    /\ UNCHANGED <<din, pipeVars, procVars>>

\* segments = column_segments(bw)
ColumnSegments ==
    /\ dpc = "call" /\ din.kind = "bar"
    /\ dout' = column_segments(din.h, din.col_sum)
    /\ dpc' = "returned"
    /\ UNCHANGED <<din, pipeVars, procVars>>

\* tokens = split_tokens(segments)
SplitTokens ==
    /\ dpc = "call" /\ din.kind = "segments"
    /\ dout' = [tokens |-> split_tokens(din.segments)]
    /\ dpc' = "returned"
    /\ UNCHANGED <<din, pipeVars, procVars>>

\* glyph = normalize_glyph(crop, size=32)
NormalizeGlyph ==
    /\ dpc = "call" /\ din.kind = "glyph"
    /\ dout' = normalize_glyph(din.img, GlyphSize)
    /\ dpc' = "returned"
    /\ UNCHANGED <<din, pipeVars, procVars>>

\* normalize_glyph called on a glyph it returned
NormalizeAgain ==
    /\ dpc = "returned" /\ din.kind = "glyph"
    /\ din' = [kind |-> "glyph", img |-> dout]
    /\ dout' = normalize_glyph(dout, GlyphSize)
    /\ dpc' = "renormalized"
    /\ UNCHANGED <<pipeVars, procVars>>

ImgNext ==
    \/ ExtractBottomBar
    \/ ColumnSegments
    \/ SplitTokens
    \/ NormalizeGlyph
    \/ NormalizeAgain

SpecImage == ImgInit /\ [][ImgNext]_vars

-----------------------------------------------------------------------------
(* Properties of the bar extractor, the tokenizer and the glyph normalizer *)

\* C15 as stated: for a bar of height h >= 32, a column with n foreground
\* pixels is "on" if and only if n exceeds 5% of the height, 20 * n > h.
C15_FivePercent ==
    (dpc = "returned" /\ din.kind = "bar" /\ din.h >= 32) =>
        \A i \in 1..Len(din.col_sum) :
            dout.mask[i] <=> 20 * din.col_sum[i] > din.h

\* C15 as amended: for a bar of height h >= 32, a column with n foreground
\* pixels is "on" if and only if n exceeds 5% of the height and n is at
\* least 3; a column of 2 pixels is never on.
C15_FivePercentAboveTwo ==
    (dpc = "returned" /\ din.kind = "bar" /\ din.h >= 32) =>
        \A i \in 1..Len(din.col_sum) :
            dout.mask[i] <=> (20 * din.col_sum[i] > din.h /\ din.col_sum[i] >= 3)

\* C15 witness: in a bar of 37 rows two adjacent columns of 2 pixels are off
\* and two adjacent columns of 3 pixels are a segment
C15_TwoPixelsOff ==
    /\ dpc = "returned" /\ din.kind = "bar" /\ din.h = 37
    /\ din.col_sum = <<2, 2, 3, 3>>
    /\ dout.mask = <<FALSE, FALSE, TRUE, TRUE>>
    /\ dout.segments = <<<<2, 4>>>>

\* The maximal runs of "on" columns, as (first column, column after the last)
MaximalRuns(mask) ==
    {r \in (0..Len(mask)) \X (0..Len(mask)) :
        /\ r[1] < r[2]
        /\ \A i \in (r[1] + 1)..r[2] : mask[i]
        /\ r[1] = 0 \/ ~mask[r[1]]
        /\ r[2] = Len(mask) \/ ~mask[r[2] + 1]}

\* C16: the segments column_segments returns are the maximal runs of "on"
\* columns of width > 1, each once, from left to right; a run of width 1 is
\* not returned, also when it reaches the right edge of the bar.
C16_MaximalRuns ==
    (dpc = "returned" /\ din.kind = "bar") =>
        /\ {dout.segments[k] : k \in 1..Len(dout.segments)}
               = {r \in MaximalRuns(dout.mask) : r[2] - r[1] > 1}
        /\ \A k \in 1..(Len(dout.segments) - 1) :
               dout.segments[k][2] <= dout.segments[k + 1][1]

RECURSIVE Flatten(_)
Flatten(seqs) == IF Len(seqs) = 0 THEN <<>> ELSE seqs[1] \o Flatten(Tail(seqs))

\* The number of segments before which a new token starts, for each token
\* after the first
BreaksOf(tokens) ==
    {Len(Flatten(SubSeq(tokens, 1, j))) : j \in 1..(Len(tokens) - 1)}

\* C17: split_tokens starts a new token exactly after the gaps that exceed
\* max(12, 2 * m), m being the median of the gaps when there are at least two
\* gaps and 8 otherwise; two segments more than 16 columns apart are two tokens.
C17_SplitAtWideGaps ==
    (dpc = "returned" /\ din.kind = "segments") =>
        Let(GapsOf(din.segments), LAMBDA gaps :
            /\ Flatten(dout.tokens) = din.segments
            /\ \A k \in 1..Len(dout.tokens) : Len(dout.tokens[k]) > 0
            /\ BreaksOf(dout.tokens) =
                   {i \in 1..Len(gaps) :
                       gaps[i] > Max(12, IF Len(gaps) >= 2 THEN TwiceMedian(gaps)
                                         ELSE 16)})

\* C18: extract_bottom_bar returns the bottom min(h, max(32, round(h*56/1080)))
\* rows of a frame of h rows: the whole frame when it is shorter than the bar.
C18_BottomRows ==
    (dpc = "returned" /\ din.kind = "frame") =>
        Let(Min(din.h, Max(32, RoundDiv(din.h * 56, 1080))), LAMBDA n :
            dout.rows = [k \in 1..n |-> din.h - n + k - 1])

\* C20: normalizing a normalized glyph gives the same glyph, pixel for pixel;
\* a normalized glyph is 32 x 32, and all black for an input without ink.
C20_Idempotent ==
    /\ (dpc \in {"returned", "renormalized"} /\ din.kind = "glyph") =>
           /\ dout.h = 32 /\ dout.w = 32
           /\ dout.ink \subseteq (0..31) \X (0..31)
           /\ din.img.ink = {} => dout.ink = {}
    /\ (dpc = "renormalized" /\ din.kind = "glyph") => dout = din.img

-----------------------------------------------------------------------------
(* Two extractions sharing one TemplateBank: an extraction running through
   extract_metadata while a field decoder of another extraction runs on the
   same bank *)

SharedBars ==
    {<<"F32", "95F", "37C", "01-09-2026", "16:01:29">>,
     <<"F32", "76F24C", "01-09-2026", "16:01:29">>,
     <<"F32", "95F", "29C", "01-09-2026", "16:01:29">>,
     <<"F32", "95F">>}

\* The decoder calls of the other extraction
SharedCalls ==
    {[kind |-> "date", token |-> Tok("01-09-2026"), mmdd |-> <<1, 9>>,
      year |-> <<2025>>, hms |-> NoHint],
     [kind |-> "date", token |-> Tok("01-09-2026"), mmdd |-> NoHint,
      year |-> NoHint, hms |-> NoHint],
     [kind |-> "time", token |-> Tok("16:01:29"), mmdd |-> NoHint,
      year |-> NoHint, hms |-> <<16, 7, 29>>],
     [kind |-> "temp_f", token |-> Tok("95F"), mmdd |-> NoHint,
      year |-> NoHint, hms |-> NoHint],
     [kind |-> "temp_c", token |-> Tok("37C"), mmdd |-> NoHint,
      year |-> NoHint, hms |-> NoHint]}

SharedInit ==
    /\ pc = "read_first_frame"
    /\ clip \in {[tokens |-> t] : t \in SharedBars}
    /\ bank \in Banks
    /\ fused_temp = NoFused
    /\ site = NoField /\ date = NoField /\ time = NoField
    /\ tf = NoTemp /\ tc = NoTemp
    /\ idx = 0
    /\ hints = NoHints
    /\ searched = <<>>
    /\ result = Running
    /\ dpc = "call" /\ din \in SharedCalls /\ dout = None
    /\ cap = NoCapture /\ detector = NoDetector /\ run = NoRun
    /\ db = NoDatabase /\ events = <<>>

\* The decoder of din.kind on the shared bank
DecodeWith(b) ==
    CASE din.kind = "date" -> decode_date_token(din.token, b, TopK, din.mmdd, din.year)
      [] din.kind = "time" -> decode_time_token(din.token, b, TopK, din.hms)
      [] OTHER ->
            Let(decode_temp_token(din.token, b,
                    IF din.kind = "temp_f" THEN CH_F ELSE CH_C, TopK),
                LAMBDA r :
                    IF r.ok THEN [ok |-> TRUE, text |-> NatToStr(r.val),
                                  score |-> r.values[1][2]]
                    ELSE None)

\* A decoder that keeps the glyphs it has read as templates of the bank
DecodeLearning ==
    /\ dpc = "call"
    /\ dout' = DecodeWith(bank)
    /\ dpc' = "returned"
    /\ bank' = [bank EXCEPT !.templates =
                   [ch \in DOMAIN bank.templates \cup {0} |->
                       IF ch \in DOMAIN bank.templates THEN bank.templates[ch] + 1
                       ELSE 1]]
    /\ UNCHANGED <<din, pc, clip, fused_temp, site, tf, tc, date, time, idx,
                   hints, searched, result, procVars>>

\* A field decoder called with the shared bank
DecodeOnSharedBank ==
    /\ dpc = "call"
    /\ dout' = DecodeWith(bank)
    /\ dpc' = "returned"
    /\ UNCHANGED <<din, pipeVars, procVars>>

SharedNext == Next \/ DecodeOnSharedBank

SpecShared == SharedInit /\ [][SharedNext]_vars

\* C19: no step of an extraction or of a decoder changes the bank (neither
\* its keys nor the glyphs stored per character); a step of the decoder
\* leaves the state of the running extraction unchanged, and a step of the
\* extraction leaves the decoder's input and output unchanged.
C19_BankNeverModified ==
    [][/\ bank' = bank
       /\ dpc' # dpc =>
              UNCHANGED <<pc, clip, fused_temp, site, tf, tc, date, time, idx,
                          hints, searched, result>>
       /\ pc' # pc => UNCHANGED decVars]_vars

\* C19 witness: the extraction and the decoder have both returned a value
\* decoded with the calibrated bank
C19_BothReturned ==
    /\ pc = "done" /\ result.st = "returned"
    /\ dpc = "returned" /\ dout.ok
    /\ bank = CalibratedBank
-----------------------------------------------------------------------------
(* C24: a decoder returns a value whenever a valid combination exists *)

\* The number of segments a decoder of the given kind requires
SegmentCount(kind) == IF kind = "date" THEN 10 ELSE 8

\* C24: decode_date_token and decode_time_token return a value exactly when
\* the token has the field's segment count and at least one combination of
\* the per-position digit candidates passes the field's validation, whatever
\* the scores of the candidates are (also when every combined score is at
\* most -1).
C24_DecodedWheneverValid ==
    (dpc = "returned" /\ din.kind \in {"date", "time"}) =>
        (dout.ok <=> (/\ Len(din.token) = SegmentCount(din.kind)
                      /\ ValidCombinations # {}))

-----------------------------------------------------------------------------
(* C29: site discovery depends only on segment counts *)

\* The (0-based) indices of the tokens of exactly three segments
ThreeSegmentTokens == {i \in 0..(NTokens - 1) : NSegs(i) = 3}

\* The bank holds a template for some uppercase letter and for some digit
BankReadsSites ==
    /\ \E ch \in Uppers : TemplateCount(bank, ch) > 0
    /\ \E ch \in Digits : TemplateCount(bank, ch) > 0

\* C29: with a bank that has a template for some letter and for some digit,
\* once find_site has run it has returned the lowest-index token of exactly
\* three segments, whatever its glyphs read, and the extraction has failed
\* with the site error exactly when no token has three segments.
C29_SiteBySegmentCount ==
    (BankReadsSites /\ Len(searched) >= 1) =>
        IF ThreeSegmentTokens = {}
        THEN pc = "done" /\ result = Raised("missing_site")
        ELSE /\ site.idx \in ThreeSegmentTokens
             /\ \A i \in ThreeSegmentTokens : site.idx <= i
             /\ MatchSite(site.text)
             /\ result.error # "missing_site"

\* C29 witness: find_site has returned a temperature token as the site, past
\* a token that has more than three segments
C29_TemperatureTakenAsSite ==
    /\ Len(searched) >= 1
    /\ site.idx >= 1
    /\ ThreeSegmentTokens # {}
    /\ SlotOf(TokenAt(site.idx)) \in {"fahrenheit", "celsius"}
    /\ NSegs(0) # 3

-----------------------------------------------------------------------------
(* video.py: sample_frames_with_times *)

\* Times are counted in quarter seconds: 4 units make the 1000.0 ms of one
\* second (lines 70 and 74).
TicksPerSecond == 4

\* A requested frame rate: a finite float, given in thousandths of a frame
\* per second, or float("inf") (--fps is parsed with type=float)
Rate(milli) == [inf |-> FALSE, milli |-> milli]

Infinite == [inf |-> TRUE, milli |-> 0]

\* duration_sec = frame_count / src_fps when both are known, else 0.0
DurationOf(src_fps, frame_count) ==
    IF src_fps > 0 /\ frame_count > 0
    THEN (frame_count * TicksPerSecond) \div src_fps
    ELSE 0

\* step = 1.0 / max(fps, 0.001); 1.0 / inf is 0.0
StepOf(fps) ==
    IF fps.inf THEN 0
    ELSE (1000 * TicksPerSecond) \div Max(fps.milli, 1)

\* The generator right after cap.isOpened() succeeded (lines 58-66)
Opened(path, fps) ==
    [pc |-> "loop",
     duration_sec |-> DurationOf(path.src_fps, path.frame_count),
     step |-> StepOf(fps),
     t |-> 0,
     prev_t_actual |-> -TicksPerSecond,
     seeks |-> <<>>,
     yielded |-> <<>>]

\* The generator of a clip that does not open: return []
Unopened ==
    [pc |-> "released", duration_sec |-> 0, step |-> 0, t |-> 0,
     prev_t_actual |-> -TicksPerSecond, seeks |-> <<>>, yielded |-> <<>>]

\* The generator before its first next(): no line of the body has run
NewCapture == [Unopened EXCEPT !.pc = "open"]

\* t_actual = float(cap.get(CAP_PROP_POS_MSEC) or (t * 1000.0)) / 1000.0: a
\* reported position of 0.0 is falsy and replaced by the requested time
PositionOr(pos, t) == IF pos = 0 THEN t ELSE pos

\* if t_actual < prev_t_actual: t_actual = prev_t_actual
Clamped(t_actual, prev_t_actual) ==
    IF t_actual < prev_t_actual THEN prev_t_actual ELSE t_actual

\* The loop test of line 68
PastEnd(c) == c.duration_sec > 0 /\ c.t >= c.duration_sec

\* One iteration of the while loop (lines 67-79), where the decoder answers
\* the read with ret and reports the position pos: the generator breaks and
\* releases the capture, or yields one frame time and advances t
SampleStep(c, ret, pos) ==
    IF PastEnd(c) THEN [c EXCEPT !.pc = "released"]
    ELSE IF ~ret
    THEN [c EXCEPT !.pc = "released", !.seeks = Append(@, c.t)]
    ELSE Let(Clamped(PositionOr(pos, c.t), c.prev_t_actual), LAMBDA t_actual :
             [c EXCEPT !.seeks = Append(@, c.t),
                       !.prev_t_actual = t_actual,
                       !.yielded = Append(@, t_actual),
                       !.t = c.t + c.step])

\* The generator yields in this iteration
Yields(c, ret) == ~PastEnd(c) /\ ret

-----------------------------------------------------------------------------
(* Sampler harness: one clip sampled to the end *)

\* At most this many frames are drawn from one clip
MaxFrames == 4

\* The clips sampled: whether they open, their frame rate and frame count
\* (0 when the container does not tell)
Videos ==
    {[opens |-> o, src_fps |-> f, frame_count |-> n] :
        o \in BOOLEAN, f \in {0, 1, 2}, n \in {0, 2, 3}}

\* The values of --fps: -1, 0, 0.5, 1, 2, 4 and inf
RequestedRates ==
    {Rate(-1000), Rate(0), Rate(500), Rate(1000), Rate(2000), Rate(4000),
     Infinite}

\* The positions cap.get(CAP_PROP_POS_MSEC) reports after a read
ReportedPositions == (-6)..6

SampleInit ==
    /\ cap = NewCapture
    /\ din \in {[path |-> v, fps |-> r] : v \in Videos, r \in RequestedRates}
    /\ dpc = "call" /\ dout = <<>>
    /\ pc = "idle" /\ clip = [tokens |-> <<>>] /\ bank = SynthBank
    /\ fused_temp = NoFused /\ site = NoField /\ tf = NoTemp /\ tc = NoTemp
    /\ date = NoField /\ time = NoField /\ idx = 0 /\ hints = NoHints
    /\ searched = <<>> /\ result = Running
    /\ detector = NoDetector /\ run = NoRun
    /\ db = NoDatabase /\ events = <<>>

\* cap = cv2.VideoCapture(...); if not cap.isOpened(): return []
OpenCapture ==
    /\ dpc = "call" /\ cap.pc = "open"
    /\ cap' = IF din.path.opens THEN Opened(din.path, din.fps) ELSE Unopened
    /\ UNCHANGED <<dpc, din, dout, pipeVars, detector, run, db, events>>

\* The consumer draws the next frame from the generator
SampleFrame ==
    /\ dpc = "call" /\ cap.pc = "loop"
    /\ \E ret \in BOOLEAN, pos \in ReportedPositions :
        /\ Yields(cap, ret) => Len(cap.yielded) < MaxFrames
        /\ cap' = SampleStep(cap, ret, pos)
    /\ UNCHANGED <<dpc, din, dout, pipeVars, detector, run, db, events>>

\* The generator is exhausted: list(...) returns the frame times
SampleDone ==
    /\ dpc = "call" /\ cap.pc = "released"
    /\ dout' = cap.yielded
    /\ dpc' = "returned"
    /\ UNCHANGED <<din, cap, pipeVars, detector, run, db, events>>

SampleNext == OpenCapture \/ SampleFrame \/ SampleDone

SpecSample == SampleInit /\ [][SampleNext]_vars

-----------------------------------------------------------------------------
(* C22, C25, C30: the frame times of one sampling run *)

\* C22: the frame times yielded so far are non-decreasing, whatever positions
\* the decoder reported, and the first yielded time is >= 0.
C22_NonDecreasingFromZero ==
    \A i \in 1..Len(cap.yielded) :
        IF i = 1 THEN cap.yielded[1] >= 0
        ELSE cap.yielded[i - 1] <= cap.yielded[i]

\* C25: the frame times yielded within one run are pairwise distinct
\* (strictly increasing), so that no two rows of the run share the frames
\* table's key (clip_id, frame_time_sec).
C25_DistinctFrameTimes ==
    \A i, j \in 1..Len(cap.yielded) : i < j => cap.yielded[i] < cap.yielded[j]

\* ceil(a / b) for b > 0
CeilDiv(a, b) == (a + b - 1) \div b

\* C30: for a clip whose frame count and source fps are known and positive,
\* and any requested fps, the step is positive, the seek times requested so
\* far are 0, step, 2*step, ..., each below the duration, and at most
\* ceil(duration / step) frames have been yielded.
C30_BoundedSampling ==
    (/\ dpc = "call" /\ cap.pc \in {"loop", "released"} /\ din.path.opens
     /\ din.path.src_fps > 0 /\ din.path.frame_count > 0) =>
        /\ cap.step > 0
        /\ \A k \in 1..Len(cap.seeks) :
              /\ cap.seeks[k] = (k - 1) * cap.step
              /\ cap.seeks[k] < cap.duration_sec
        /\ Len(cap.yielded) <= CeilDiv(cap.duration_sec, cap.step)

-----------------------------------------------------------------------------
(* md.py: MegaDetector.__init__, the choice of execution providers *)

CPUExecutionProvider == "CPUExecutionProvider"

\* The execution providers an onnxruntime build may offer
Providers == {CPUExecutionProvider, "DmlExecutionProvider", "CUDAExecutionProvider"}

\* requested = list(providers) if providers else ["CPUExecutionProvider"]
Requested(providers) ==
    IF Len(providers) = 0 THEN <<CPUExecutionProvider>> ELSE providers

\* filtered (lines 61-63): the requested providers that are available, or
\* CPU alone when none is, or the requested list when CPU is missing too
Filtered(requested, available) ==
    Let(SelectSeq(requested, LAMBDA p : p \in available), LAMBDA filtered :
        IF Len(filtered) > 0 THEN filtered
        ELSE IF CPUExecutionProvider \in available THEN <<CPUExecutionProvider>>
        ELSE requested)

\* The except branch retrying on CPU whatever list has failed
RetryOnCpuAlways(filtered, available) == CPUExecutionProvider \in available

\* The except branch (line 69): retry with CPU only
RetryOnCpu(filtered, available) ==
    /\ filtered # <<CPUExecutionProvider>>
    /\ CPUExecutionProvider \in available

\* session.get_providers() of a session created with the given list:
\* onnxruntime reports the providers of the list it registered, in order,
\* followed by the CPU provider it always keeps as the last resort
SessionProviders(providers) ==
    {SelectSeq(providers, LAMBDA p : p \in kept /\ p # CPUExecutionProvider)
        \o <<CPUExecutionProvider>> : kept \in SUBSET Providers}

\* A MegaDetector under construction
NewDetector(providers, available) ==
    [pc |-> "select", providers |-> providers, available |-> available,
     provider_requested |-> <<>>, filtered |-> <<>>, attempts |-> <<>>,
     provider_used |-> <<>>]

\* Lines 59-63
Selected(d) ==
    Let(Requested(d.providers), LAMBDA requested :
        [d EXCEPT !.pc = "create", !.provider_requested = requested,
                  !.filtered = Filtered(requested, d.available)])

\* Lines 66-72 after ort.InferenceSession(..., providers=filtered) answered:
\* the session exists, the creation is retried on CPU, or the error propagates
Created(d, ok) ==
    [d EXCEPT !.attempts = Append(@, [providers |-> d.filtered, ok |-> ok]),
              !.pc = IF ok THEN "session"
                     ELSE IF RetryOnCpu(d.filtered, d.available) THEN "retry"
                     ELSE "raised"]

\* Line 70 after the second ort.InferenceSession answered
Retried(d, ok) ==
    [d EXCEPT !.attempts = Append(@, [providers |-> <<CPUExecutionProvider>>,
                                      ok |-> ok]),
              !.pc = IF ok THEN "session" ELSE "raised"]

\* Lines 74-81: self.provider_used = session.get_providers()
Constructed(d, used) == [d EXCEPT !.pc = "done", !.provider_used = used]

\* The provider list of the session that exists
SessionOf(d) == d.attempts[Len(d.attempts)].providers

\* provider_used = detector.provider_used[0] if detector.provider_used else ""
ProviderUsed(d) == IF Len(d.provider_used) > 0 THEN d.provider_used[1] ELSE ""

-----------------------------------------------------------------------------
(* Detector harness: one MegaDetector constructed *)

\* The values of --provider, split at commas: up to two providers
ProviderLists ==
    {<<>>} \cup {<<p>> : p \in Providers}
    \cup {<<p, q>> : p \in Providers, q \in Providers}

DetectorInit ==
    /\ detector \in {NewDetector(r, a) : r \in ProviderLists, a \in SUBSET Providers}
    /\ dpc = "call" /\ din = <<>> /\ dout = <<>>
    /\ pc = "idle" /\ clip = [tokens |-> <<>>] /\ bank = SynthBank
    /\ fused_temp = NoFused /\ site = NoField /\ tf = NoTemp /\ tc = NoTemp
    /\ date = NoField /\ time = NoField /\ idx = 0 /\ hints = NoHints
    /\ searched = <<>> /\ result = Running
    /\ cap = NoCapture /\ run = NoRun
    /\ db = NoDatabase /\ events = <<>>

SelectProviders ==
    /\ detector.pc = "select"
    /\ detector' = Selected(detector)
    /\ UNCHANGED <<decVars, pipeVars, cap, run, db, events>>

CreateSession ==
    /\ detector.pc = "create"
    /\ \E ok \in BOOLEAN : detector' = Created(detector, ok)
    /\ UNCHANGED <<decVars, pipeVars, cap, run, db, events>>

RetryCreateSession ==
    /\ detector.pc = "retry"
    /\ \E ok \in BOOLEAN : detector' = Retried(detector, ok)
    /\ UNCHANGED <<decVars, pipeVars, cap, run, db, events>>

ReadSessionProviders ==
    /\ detector.pc = "session"
    /\ \E used \in SessionProviders(SessionOf(detector)) :
           detector' = Constructed(detector, used)
    /\ UNCHANGED <<decVars, pipeVars, cap, run, db, events>>

DetectorNext ==
    SelectProviders \/ CreateSession \/ RetryCreateSession \/ ReadSessionProviders

SpecDetector == DetectorInit /\ [][DetectorNext]_vars

-----------------------------------------------------------------------------
(* C23: provider selection and the CPU fallback *)

\* The elements of a sequence
Elements(s) == {s[i] : i \in 1..Len(s)}

\* The requested providers that are available, in requested order
AvailableRequested(d) ==
    SelectSeq(IF Len(d.providers) = 0 THEN <<CPUExecutionProvider>> ELSE d.providers,
              LAMBDA p : p \in d.available)

\* The first creation failed on a list other than [CPU] while CPU is available
FallbackDue(d) ==
    /\ ~d.attempts[1].ok
    /\ d.attempts[1].providers # <<CPUExecutionProvider>>
    /\ CPUExecutionProvider \in d.available

\* C23: the session is first created with the requested providers that are
\* available, in requested order, or with CPU alone when none of them is
\* available and CPU is; the creation is retried, exactly once and with CPU
\* only, exactly when the first creation failed on a list other than [CPU]
\* and CPU is available; otherwise a failure propagates; and every provider
\* reported as used is a requested provider or CPU.
C23_ProviderSelection ==
    detector.pc \in {"session", "retry", "raised", "done"} =>
        /\ Len(detector.attempts) \in {1, 2}
        /\ Len(AvailableRequested(detector)) > 0 =>
               detector.attempts[1].providers = AvailableRequested(detector)
        /\ (/\ Len(AvailableRequested(detector)) = 0
            /\ CPUExecutionProvider \in detector.available) =>
               detector.attempts[1].providers = <<CPUExecutionProvider>>
        /\ (detector.pc = "retry" \/ Len(detector.attempts) = 2)
               <=> FallbackDue(detector)
        /\ detector.pc = "retry" => Len(detector.attempts) = 1
        /\ Len(detector.attempts) = 2 =>
               detector.attempts[2].providers = <<CPUExecutionProvider>>
        /\ detector.pc = "raised" <=>
               /\ ~detector.attempts[Len(detector.attempts)].ok
               /\ Len(detector.attempts) = 2 \/ ~FallbackDue(detector)
        /\ detector.pc = "done" =>
               /\ ProviderUsed(detector) \in
                      Elements(detector.provider_requested) \cup {CPUExecutionProvider}
               /\ Elements(detector.provider_used) \subseteq
                      Elements(detector.providers) \cup {CPUExecutionProvider}

\* C23 witness: a detector whose session on the requested DirectML provider
\* failed and was created on CPU at the second attempt
C23_FellBackToCpu ==
    /\ detector.pc = "done"
    /\ detector.providers = <<"DmlExecutionProvider">>
    /\ Len(detector.attempts) = 2
    /\ detector.attempts[1].providers = <<"DmlExecutionProvider">>
    /\ detector.attempts[2].ok
    /\ ProviderUsed(detector) = CPUExecutionProvider

-----------------------------------------------------------------------------
(* db.py: the clips, frames and detections tables of one clip_id *)

\* A column is NULL, or holds one value
Null == <<>>

Value(v) == <<v>>

\* The clips row the INSERT of upsert_clip_metadata creates
NewClipRow(meta) ==
    [duration_sec |-> Value(meta.duration_sec), video_fps |-> Value(meta.video_fps),
     site |-> Null, temp_f |-> Null, temp_c |-> Null,
     bar_date |-> Null, bar_time |-> Null,
     processed |-> 0, processed_fps |-> Null,
     max_conf |-> Null, max_conf_time_sec |-> Null,
     max_conf_cls_id |-> Null, max_conf_label |-> Null]

\* upsert_clip_metadata: insert the row, or on conflict update the probed
\* columns only
upsert_clip_metadata(d, meta) ==
    IF Len(d.clips) = 0 THEN [d EXCEPT !.clips = <<NewClipRow(meta)>>]
    ELSE [d EXCEPT !.clips[1].duration_sec = Value(meta.duration_sec),
                   !.clips[1].video_fps = Value(meta.video_fps)]

\* update_clip_bar_metadata: UPDATE clips SET site, temp_f, temp_c, bar_date,
\* bar_time of the clip's row
update_clip_bar_metadata(d, bar) ==
    [d EXCEPT !.clips[1].site = Value(bar.site),
              !.clips[1].temp_f = Value(bar.temp_f),
              !.clips[1].temp_c = Value(bar.temp_c),
              !.clips[1].bar_date = Value(bar.date),
              !.clips[1].bar_time = Value(bar.time)]

\* get_clip_state: None, or the processing columns of the row
get_clip_state(d) == d.clips

\* The primary key of a frames row: (clip_id, frame_time_sec)
FrameKey(r) == <<r.frame_time_sec>>

\* The primary key of a detections row:
\* (clip_id, frame_time_sec, cls_id, conf, x, y, w, h)
DetectionKey(r) == <<r.frame_time_sec, r.cls_id, r.conf, r.x, r.y, r.w, r.h>>

\* executemany(INSERT ...) into a table emptied for the clip violates the
\* primary key when two of the rows have the same key
DuplicateFrames(rows) ==
    \E i, j \in 1..Len(rows) : i < j /\ FrameKey(rows[i]) = FrameKey(rows[j])

DuplicateDetections(rows) ==
    \E i, j \in 1..Len(rows) :
        i < j /\ DetectionKey(rows[i]) = DetectionKey(rows[j])

\* write_clip_results keeping the rows already stored (no DELETE)
write_clip_results_appending(d, processed_fps, frames, detections, max_conf, max_conf_time_sec, max_conf_cls_id, max_conf_label) ==
    [ok |-> TRUE,
     db |-> [d EXCEPT
        !.frames = @ \cup {frames[i] : i \in 1..Len(frames)},
        !.detections = @ \cup {detections[i] : i \in 1..Len(detections)},
        !.clips[1].processed = 1,
        !.clips[1].processed_fps = Value(processed_fps),
        !.clips[1].max_conf = Value(max_conf),
        !.clips[1].max_conf_time_sec = Value(max_conf_time_sec),
        !.clips[1].max_conf_cls_id = max_conf_cls_id,
        !.clips[1].max_conf_label = max_conf_label]]

\* write_clip_results: in one transaction delete the clip's frames and
\* detections, insert the new rows and mark the clip processed; an
\* IntegrityError leaves the transaction uncommitted
write_clip_results(d, processed_fps, frames, detections, max_conf, max_conf_time_sec, max_conf_cls_id, max_conf_label) ==
    IF DuplicateFrames(frames) \/ DuplicateDetections(detections)
    THEN [ok |-> FALSE, db |-> d]
    ELSE [ok |-> TRUE,
          db |-> [d EXCEPT
             !.frames = {frames[i] : i \in 1..Len(frames)},
             !.detections = {detections[i] : i \in 1..Len(detections)},
             !.clips[1].processed = 1,
             !.clips[1].processed_fps = Value(processed_fps),
             !.clips[1].max_conf = Value(max_conf),
             !.clips[1].max_conf_time_sec = Value(max_conf_time_sec),
             !.clips[1].max_conf_cls_id = max_conf_cls_id,
             !.clips[1].max_conf_label = max_conf_label]]

-----------------------------------------------------------------------------
(* engine.py: process_clip *)

\* try_extract_bar_metadata: (True, ms, bar), or (False, ms, None) when
\* build_template_bank or extract_metadata raised
try_extract_bar_metadata(outcome) ==
    IF outcome.st = "raised" THEN [bar_ok |-> FALSE, bar |-> NoRecord]
    ELSE [bar_ok |-> TRUE, bar |-> outcome.record]

\* Lines 126-135 writing the bar columns whatever the extraction gave
StoreBarAlways(d, meta) ==
    IF meta.bar_ok
    THEN update_clip_bar_metadata(d, meta.bar)
    ELSE [d EXCEPT !.clips[1].site = Null, !.clips[1].temp_f = Null,
                   !.clips[1].temp_c = Null, !.clips[1].bar_date = Null,
                   !.clips[1].bar_time = Null]

\* Lines 126-135: if bar_ok and bar is not None: db.update_clip_bar_metadata
StoreBar(d, meta) ==
    IF meta.bar_ok /\ meta.bar # NoRecord
    THEN update_clip_bar_metadata(d, meta.bar)
    ELSE d

\* The skip test of line 84 without "and not args.force"
SkipsForced(state, fps, force) ==
    /\ Len(state) > 0
    /\ state[1].processed = 1
    /\ state[1].processed_fps = Value(fps)

\* Line 84: state and state["processed"] == 1 and
\* state["processed_fps"] == fps and not args.force
Skips(state, fps, force) ==
    /\ Len(state) > 0
    /\ state[1].processed = 1
    /\ state[1].processed_fps = Value(fps)
    /\ ~force

\* A float column read with "or 0.0"
OrZero(column) == IF column = Null THEN 0 ELSE column[1]

\* The done event of a skipped run (lines 85-98)
SkippedEvent(state) ==
    [type |-> "done", frames |-> 0, skipped |-> TRUE,
     max_conf |-> OrZero(state[1].max_conf),
     max_t |-> OrZero(state[1].max_conf_time_sec),
     provider_used |-> "", meta_ok |-> FALSE]

\* The start event (lines 102-110)
StartEvent(fps) == [type |-> "start", fps |-> fps]

\* The locals of process_clip: args, position, the rows and maxima collected
\* by the loop (lines 140-146), how the run ended and the database as the run
\* found it
NewRun(n, fps, force, before) ==
    [pc |-> "probe", n |-> n, fps |-> fps, force |-> force,
     skipped |-> FALSE, error |-> "", before |-> before,
     bar_ok |-> FALSE, provider_used |-> "",
     frames_rows |-> <<>>, detections_rows |-> <<>>,
     max_conf |-> 0, max_t |-> 0,
     max_conf_cls_id |-> Null, max_conf_label |-> Null,
     frame_count |-> 0]

\* The run returns 0
Returned(r) == [r EXCEPT !.pc = "done"]

\* An exception leaves process_clip
Aborted(r, err) == [r EXCEPT !.pc = "failed", !.error = err]

\* max_det = max(dets, key=lambda d: d[2], default=None): the first of the
\* tuples whose third member is the greatest, as a list of none or one
MaxDet(dets) ==
    IF Len(dets) = 0 THEN <<>>
    ELSE Let(CHOOSE i \in 1..Len(dets) :
                 /\ \A j \in 1..Len(dets) : dets[j][3] <= dets[i][3]
                 /\ \A j \in 1..(i - 1) : dets[j][3] < dets[i][3],
             LAMBDA i : <<dets[i]>>)

\* max_conf_frame = float(max_det[2]) if max_det is not None else 0.0
MaxConfFrame(max_det) == IF Len(max_det) = 0 THEN 0 ELSE max_det[1][3]

\* str(max_det[1]): the text of the tuple's second member
Str(v) == [str |-> v]

\* Lines 154-161: the frame's row and the running maximum
Tracked(r, t_actual, dets) ==
    Let(MaxDet(dets), LAMBDA max_det :
    Let(MaxConfFrame(max_det), LAMBDA max_conf_frame :
        Let([r EXCEPT !.frames_rows =
                 Append(@, [frame_time_sec |-> t_actual,
                            max_conf_frame |-> max_conf_frame])],
            LAMBDA q :
                IF Len(max_det) > 0 /\ max_conf_frame >= r.max_conf
                THEN [q EXCEPT !.max_conf = max_conf_frame,
                               !.max_t = t_actual,
                               !.max_conf_cls_id = Value(max_det[1][1]),
                               !.max_conf_label = Value(Str(max_det[1][2]))]
                ELSE q)))

\* The frame event (lines 179-189)
FrameEvent(t_actual, dets) ==
    [type |-> "frame", t |-> t_actual,
     max_conf_frame |-> MaxConfFrame(MaxDet(dets)), det_count |-> Len(dets)]

\* Line 163: cls_id, cls_label, conf, x, y, w, h, area_frac = det unpacks
\* eight members; any other tuple raises ValueError
Unpacks(det) == Len(det) = 8

\* Lines 162-177: one detections row per unpacked tuple
DetectionRow(t_actual, det) ==
    [frame_time_sec |-> t_actual, cls_id |-> det[1], cls_label |-> Str(det[2]),
     conf |-> det[3], x |-> det[4], y |-> det[5], w |-> det[6], h |-> det[7],
     area_frac |-> det[8]]

\* The loop body (lines 149-189) for one yielded frame: the run's locals and
\* the event emitted, or the ValueError of the first tuple that does not unpack
LoopBody(r, t_actual, dets) ==
    IF \E i \in 1..Len(dets) : ~Unpacks(dets[i])
    THEN [run |-> Aborted(Tracked(r, t_actual, dets), "ValueError"),
          emitted |-> <<>>]
    ELSE [run |-> [Tracked(r, t_actual, dets) EXCEPT
                      !.detections_rows =
                          @ \o [i \in 1..Len(dets) |-> DetectionRow(t_actual, dets[i])],
                      !.frame_count = @ + 1],
          emitted |-> <<FrameEvent(t_actual, dets)>>]

\* The done event of a run that wrote its results (lines 204-218)
DoneEvent(r) ==
    [type |-> "done", frames |-> r.frame_count, skipped |-> FALSE,
     max_conf |-> r.max_conf, max_t |-> r.max_t,
     provider_used |-> r.provider_used, meta_ok |-> r.bar_ok]

-----------------------------------------------------------------------------
(* Processing harness: one clip processed several times against one database *)

\* At most this many runs of process_clip are made
MaxRuns == 3

\* md.py infer: one tuple (cls_id, conf, x, y, bw, bh, area_frac) per kept
\* box, in hundredths
Animal == <<0, 90, 10, 20, 30, 40, 12>>

Person == <<1, 60, 50, 20, 30, 40, 12>>

\* The clips processed, each one second long: whether the file opens, its
\* frame rate and frame count, whether the decoder reports the requested
\* position or the time of the frame it landed on, and what the detector
\* finds in the second half of the clip
ClipFiles ==
    {[opens |-> o, src_fps |-> f, frame_count |-> f, seek |-> s, scene |-> c] :
        o \in BOOLEAN, f \in {2, 4}, s \in {"exact", "frame"},
        c \in {"none", "one", "two"}}

\* The values of --fps: 1, 2 and 4 frames per second
RunRates == {1000, 2000, 4000}

\* The outcomes of the bar extraction: an exception, or a record read
BarOutcomes ==
    {Raised("RuntimeError"),
     [st |-> "ok", error |-> "",
      record |-> BarMetadata(ExpectedSite, ExpectedTempF, ExpectedTempC,
                             ExpectedDate, ExpectedTime)],
     [st |-> "ok", error |-> "",
      record |-> BarMetadata(ExpectedSite, <<7, 9, CH_F>>, <<2, 6, CH_C>>,
                             ExpectedDate, ExpectedTime)]}

\* The provider lists the runs request and the builds they meet
RunProviders == <<"DmlExecutionProvider", CPUExecutionProvider>>

RunAvailable ==
    {{CPUExecutionProvider}, {CPUExecutionProvider, "DmlExecutionProvider"}}

\* probe_clip: duration_sec and video_fps of a clip that opens
probe_clip(path) ==
    [duration_sec |-> DurationOf(path.src_fps, path.frame_count),
     video_fps |-> path.src_fps]

\* cap.get(cv2.CAP_PROP_POS_MSEC) after the read of the frame sought at t
ReportedPosition(path, t) ==
    IF path.seek = "exact" THEN t
    ELSE Let(TicksPerSecond \div path.src_fps, LAMBDA frame_time :
             (t \div frame_time) * frame_time)

\* detector.infer on the frame at t_actual
infer(path, t_actual) ==
    IF path.scene = "none" \/ 2 * t_actual < TicksPerSecond THEN <<>>
    ELSE IF path.scene = "one" THEN <<Animal>>
    ELSE <<Person, Animal>>

ProcessInit ==
    /\ din \in ClipFiles
    /\ run = NoRun /\ db = NoDatabase /\ events = <<>>
    /\ cap = NoCapture /\ detector = NoDetector
    /\ dpc = "call" /\ dout = <<>>
    /\ pc = "idle" /\ clip = [tokens |-> <<>>] /\ bank = SynthBank
    /\ fused_temp = NoFused /\ site = NoField /\ tf = NoTemp /\ tc = NoTemp
    /\ date = NoField /\ time = NoField /\ idx = 0 /\ hints = NoHints
    /\ searched = <<>> /\ result = Running

\* Lines 66-110: the state of the clip is read; the run is skipped with one
\* done event, or it emits start
StartRun ==
    /\ run.pc \in {"idle", "done", "failed"}
    /\ run.n < MaxRuns
    /\ \E fps \in RunRates, force \in BOOLEAN :
        IF Skips(get_clip_state(db), fps, force)
        THEN /\ events' = <<SkippedEvent(get_clip_state(db))>>
             /\ run' = [Returned(NewRun(run.n + 1, fps, force, db))
                           EXCEPT !.skipped = TRUE]
        ELSE /\ events' = <<StartEvent(fps)>>
             /\ run' = NewRun(run.n + 1, fps, force, db)
    /\ cap' = NoCapture /\ detector' = NoDetector
    /\ UNCHANGED <<db, decVars, pipeVars>>

\* Lines 112-123: probe_clip raises when the clip does not open, else its
\* metadata is upserted
ProbeClip ==
    /\ run.pc = "probe"
    /\ IF din.opens
       THEN /\ db' = upsert_clip_metadata(db, probe_clip(din))
            /\ run' = [run EXCEPT !.pc = "bar"]
       ELSE /\ run' = Aborted(run, "RuntimeError")
            /\ UNCHANGED db
    /\ UNCHANGED <<events, cap, detector, decVars, pipeVars>>

\* Lines 125-135: the bar metadata, best effort
ExtractBar ==
    /\ run.pc = "bar"
    /\ \E outcome \in BarOutcomes :
        \E meta \in {try_extract_bar_metadata(outcome)} :
            /\ db' = StoreBar(db, meta)
            /\ run' = [run EXCEPT !.pc = "detector", !.bar_ok = meta.bar_ok]
    /\ UNCHANGED <<events, cap, detector, decVars, pipeVars>>

\* Lines 137-138: md.MegaDetector(model_path, providers=provider_list), whose
\* constructor may raise, and provider_used
CreateDetector ==
    /\ run.pc = "detector"
    /\ \E available \in RunAvailable, ok \in BOOLEAN, again \in BOOLEAN :
        \E first \in {Created(Selected(NewDetector(RunProviders, available)), ok)} :
        \E d \in {IF first.pc = "retry" THEN Retried(first, again) ELSE first} :
            IF d.pc = "raised"
            THEN /\ detector' = d
                 /\ run' = Aborted(run, "SessionError")
                 /\ UNCHANGED cap
            ELSE \E used \in SessionProviders(SessionOf(d)) :
                 /\ detector' = Constructed(d, used)
                 /\ run' = [run EXCEPT !.pc = "loop",
                                       !.provider_used = ProviderUsed(detector')]
                 /\ cap' = NewCapture
    /\ UNCHANGED <<db, events, decVars, pipeVars>>

\* Line 148, first next() of the generator: the capture is opened
OpenSampler ==
    /\ run.pc = "loop" /\ cap.pc = "open"
    /\ cap' = IF din.opens THEN Opened(din, Rate(run.fps)) ELSE Unopened
    /\ UNCHANGED <<run, db, events, detector, decVars, pipeVars>>

\* Lines 148-189: the generator gives the next frame time and the loop body
\* handles the frame, or the generator is exhausted
ProcessFrame ==
    /\ run.pc = "loop" /\ cap.pc = "loop"
    /\ cap' = SampleStep(cap, TRUE, ReportedPosition(din, cap.t))
    /\ IF Yields(cap, TRUE)
       THEN \E t_actual \in {cap'.yielded[Len(cap'.yielded)]} :
            \E body \in {LoopBody(run, t_actual, infer(din, t_actual))} :
                /\ run' = body.run
                /\ events' = events \o body.emitted
       ELSE /\ run' = [run EXCEPT !.pc = "write"]
            /\ UNCHANGED events
    /\ UNCHANGED <<db, detector, decVars, pipeVars>>

\* Lines 191-219: the results are written in one transaction and done is
\* emitted, or the IntegrityError of the insert leaves process_clip
WriteResults ==
    /\ run.pc = "write"
    /\ \E written \in {write_clip_results(db, run.fps, run.frames_rows,
                           run.detections_rows, run.max_conf, run.max_t,
                           run.max_conf_cls_id, run.max_conf_label)} :
        IF written.ok
        THEN /\ db' = written.db
             /\ events' = Append(events, DoneEvent(run))
             /\ run' = Returned(run)
        ELSE /\ run' = Aborted(run, "IntegrityError")
             /\ UNCHANGED <<db, events>>
    /\ UNCHANGED <<cap, detector, decVars, pipeVars>>

ProcessNext ==
    \/ StartRun \/ ProbeClip \/ ExtractBar \/ CreateDetector
    \/ OpenSampler \/ ProcessFrame \/ WriteResults

SpecProcess == ProcessInit /\ [][ProcessNext]_vars

-----------------------------------------------------------------------------
(* Properties of process_clip and the database *)

\* The run that last ended was not skipped and wrote its results
Wrote == run.pc = "done" /\ ~run.skipped

\* The clip was processed at this rate when the run started
ProcessedAt(d, fps) ==
    /\ Len(d.clips) > 0
    /\ d.clips[1].processed = 1
    /\ d.clips[1].processed_fps = Value(fps)

\* C21: after every successful run the frames and detections tables hold
\* exactly the rows of the most recent run that was not skipped: a run that
\* wrote leaves its own rows, each once, and nothing of the earlier runs; a
\* skipped run leaves the tables as it found them; and a run at the rate the
\* clip was last processed at leaves both row counts unchanged.
C21_IdempotentTables ==
    run.pc = "done" =>
        /\ run.skipped =>
            /\ db.frames = run.before.frames
            /\ db.detections = run.before.detections
        /\ ~run.skipped =>
            /\ db.frames = Elements(run.frames_rows)
            /\ Cardinality(db.frames) = Len(run.frames_rows)
            /\ db.detections = Elements(run.detections_rows)
            /\ Cardinality(db.detections) = Len(run.detections_rows)
        /\ ProcessedAt(run.before, run.fps) =>
            /\ Cardinality(db.frames) = Cardinality(run.before.frames)
            /\ Cardinality(db.detections) = Cardinality(run.before.detections)

\* A run at a lower rate has replaced the rows of an earlier run by fewer rows
C21_RowsReplaced ==
    /\ Wrote
    /\ run.before.frames # {}
    /\ Cardinality(db.frames) < Cardinality(run.before.frames)

\* C26: a run is skipped exactly when the clip's row has processed = 1 and
\* processed_fps equal to the requested fps and --force is not given; a
\* skipped run emits one event, done with skipped = true and frames = 0, and
\* changes no row; a run that was not skipped and succeeded emits start, one
\* frame event per sampled frame in sampling order, then done, and leaves
\* processed = 1 and processed_fps = the requested fps.
C26_SkipOrProcess ==
    /\ run.pc # "idle" =>
        (run.skipped <=> (ProcessedAt(run.before, run.fps) /\ ~run.force))
    /\ (run.pc # "idle" /\ run.skipped) =>
        /\ run.pc = "done"
        /\ Len(events) = 1
        /\ events[1].type = "done" /\ events[1].skipped /\ events[1].frames = 0
        /\ db = run.before
    /\ Wrote =>
        /\ Len(events) = Len(cap.yielded) + 2
        /\ events[1].type = "start"
        /\ \A k \in 1..Len(cap.yielded) :
            /\ events[k + 1].type = "frame"
            /\ events[k + 1].t = cap.yielded[k]
        /\ events[Len(events)].type = "done"
        /\ ~events[Len(events)].skipped
        /\ events[Len(events)].frames = Len(cap.yielded)
        /\ db.clips[1].processed = 1
        /\ db.clips[1].processed_fps = Value(run.fps)

\* A clip processed with several frames is run again at the same rate
\* without --force, and skipped
C26_SkippedRun ==
    /\ run.pc = "done" /\ run.skipped
    /\ Cardinality(db.frames) > 1

\* The five bar columns of a clips row
ClipBarColumns(row) == <<row.site, row.temp_f, row.temp_c, row.bar_date, row.bar_time>>

\* The bar columns the run found: those of the clip's row, or the NULLs of
\* the row it inserted
BarColumnsBefore ==
    IF Len(run.before.clips) = 0 THEN <<Null, Null, Null, Null, Null>>
    ELSE ClipBarColumns(run.before.clips[1])

\* The run has passed the bar extraction (lines 125-135)
BarTried ==
    \/ run.pc \in {"detector", "loop", "write"}
    \/ Wrote
    \/ run.pc = "failed" /\ run.error # "RuntimeError"

\* C27: a failure of the bar extraction never aborts the run: the only
\* exceptions leaving process_clip come from probing, the detector, the loop
\* and the write; a run whose extraction failed and which wrote its results
\* has processed = 1 and reports meta_ok = false; after a failed extraction
\* the five bar columns are as the run found them (NULL for a new clip);
\* after a successful one all five are set; and the five columns are always
\* all NULL or all set.
C27_BestEffortBar ==
    /\ run.pc = "failed" =>
        /\ run.error \in {"RuntimeError", "SessionError", "ValueError",
                          "IntegrityError"}
        /\ run.error = "RuntimeError" => ~din.opens
    /\ (Wrote /\ ~run.bar_ok) =>
        /\ ~events[Len(events)].meta_ok
        /\ db.clips[1].processed = 1
        /\ db.frames = Elements(run.frames_rows)
    /\ (BarTried /\ ~run.bar_ok) => ClipBarColumns(db.clips[1]) = BarColumnsBefore
    /\ (BarTried /\ run.bar_ok) =>
        \A k \in 1..5 : ClipBarColumns(db.clips[1])[k] # Null
    /\ Len(db.clips) > 0 =>
        \/ \A k \in 1..5 : ClipBarColumns(db.clips[1])[k] = Null
        \/ \A k \in 1..5 : ClipBarColumns(db.clips[1])[k] # Null

\* A run whose bar extraction failed has written its results and kept the
\* bar columns an earlier run had set
C27_FailedExtractionKeepsColumns ==
    /\ Wrote /\ ~run.bar_ok
    /\ db.frames # {}
    /\ db.clips[1].site # Null

\* The greatest member of a non-empty set of numbers
Greatest(S) == CHOOSE m \in S : \A v \in S : v <= m

\* The highest confidence the detector gives in the frame at t_actual, where
\* the confidence is the second member of infer's tuples; 0 without detection
FrameConfidence(t_actual) ==
    Greatest({0} \cup {infer(din, t_actual)[i][2] :
                         i \in 1..Len(infer(din, t_actual))})

\* The maximum of the frame confidences over the frames sampled by the run
HighestConfidence ==
    Greatest({0} \cup {FrameConfidence(cap.yielded[k]) : k \in 1..Len(cap.yielded)})

\* The last sampled frame that attains the maximum
LastAttaining ==
    Greatest({k \in 1..Len(cap.yielded) :
                 FrameConfidence(cap.yielded[k]) = HighestConfidence})

\* The class of the most confident detection of the frame at t_actual
FrameClass(t_actual) ==
    Let(infer(din, t_actual), LAMBDA dets :
        dets[CHOOSE i \in 1..Len(dets) : dets[i][2] = FrameConfidence(t_actual)][1])

\* The run sampled the clip and ended, by writing its results or in the
\* loop body
Processed == Wrote \/ (run.pc = "failed" /\ run.error = "ValueError")

\* C28: after a run that was not skipped, the stored max_conf is the maximum
\* over the sampled frames of the frame's highest detection confidence (0
\* when no frame has a detection); when a frame has a detection, the stored
\* max_conf_time_sec and max_conf_cls_id are those of the last sampled frame
\* attaining the maximum and max_conf_label is not NULL; and a stored
\* max_conf above 0 comes with a label and a class.
C28_StoredMaximum ==
    Processed =>
        /\ db.clips[1].max_conf = Value(HighestConfidence)
        /\ HighestConfidence > 0 =>
            /\ db.clips[1].max_conf_time_sec = Value(cap.yielded[LastAttaining])
            /\ db.clips[1].max_conf_cls_id =
                   Value(FrameClass(cap.yielded[LastAttaining]))
            /\ db.clips[1].max_conf_label # Null
        /\ OrZero(db.clips[1].max_conf) > 0 =>
            /\ db.clips[1].max_conf_label # Null
            /\ db.clips[1].max_conf_cls_id # Null

\* Runs without any detection store 0.0 as max_conf
C28_NoDetectionStoresZero ==
    Wrote => db.clips[1].max_conf = Value(0)

\* A run that was not skipped sampled a frame with a detection
C28_DetectionSampled == Processed /\ HighestConfidence > 0

====
